---- MODULE Spec2Model ----
(***************************************************************************)
(* MoodLens scoring and fusion engine.                                     *)
(*                                                                         *)
(* UnifiedEmotionDetector.detect_emotion (src/src/core/emotion_detector.py)*)
(* and AdvancedEmotionFusionSystem.weighted_fusion                         *)
(* (src/src/utils/advanced_fusion_system.py) as operators over their       *)
(* inputs, driven by a state machine that issues one call per step.        *)
(*                                                                         *)
(* Numbers: the code computes in binary floating point; the model computes *)
(* the same expressions over exact rationals [n, d], d > 0, kept in        *)
(* lowest terms (0.8 is R(8, 10)).  Strings that the code scans character  *)
(* by character are tuples of one-character strings.                       *)
(***************************************************************************)
EXTENDS Integers, Sequences, FiniteSets, TLC

VARIABLES
    question_weights,   \* UnifiedEmotionDetector.question_weights (instance attribute)
    op,                 \* the call made by the last step: "idle", "detect", "fuse" or "analyze"
    request,            \* arguments of the last detect_emotion call
    result,             \* what detect_emotion handed back to its caller
    modality_results,   \* argument of the last weighted_fusion call
    fusion,             \* what weighted_fusion handed back to its caller
    patterns,           \* PatternTracker.patterns of the module-level pattern_tracker
    history_file,       \* contents of emotional_patterns.json (None: no such file)
    http_response,      \* what /api/analyze answered to the last request
    threads,            \* the calls in progress, per thread
    memo                \* an earlier call a caller kept to compare: its input and output

vars == <<question_weights, op, request, result, modality_results, fusion,
          patterns, history_file, http_response, memo, threads>>

None == [None |-> TRUE]

---------------------------------------------------------------------------
(* Exact arithmetic on rationals [n, d] with d > 0, in lowest terms.       *)

RECURSIVE GCD(_, _)
GCD(a, b) == IF b = 0 THEN a ELSE GCD(b, a % b)

Abs(x) == IF x < 0 THEN 0 - x ELSE x

R(n, d) == LET g == GCD(Abs(n), d) IN [n |-> n \div g, d |-> d \div g]

Zero == [n |-> 0, d |-> 1]
One == [n |-> 1, d |-> 1]

RAdd(a, b) ==
    LET l == (a.d \div GCD(a.d, b.d)) * b.d
    IN  R(a.n * (l \div a.d) + b.n * (l \div b.d), l)

RMul(a, b) ==
    LET x == R(a.n, b.d)
        y == R(b.n, a.d)
    IN  [n |-> x.n * y.n, d |-> x.d * y.d]

RDiv(a, b) == RMul(a, [n |-> b.d, d |-> b.n])

RSub(a, b) ==
    LET l == (a.d \div GCD(a.d, b.d)) * b.d
    IN  R(a.n * (l \div a.d) - b.n * (l \div b.d), l)

\* a < b, by comparing integer parts and then the reciprocals of the
\* fractional parts, so that no product leaves the integer range
RECURSIVE RLess(_, _)
RLess(a, b) ==
    LET qa == a.n \div a.d
        qb == b.n \div b.d
        ra == a.n % a.d
        rb == b.n % b.d
    IN  IF qa # qb THEN qa < qb
        ELSE IF rb = 0 THEN FALSE
        ELSE IF ra = 0 THEN TRUE
        ELSE RLess([n |-> b.d, d |-> rb], [n |-> a.d, d |-> ra])

RLeq(a, b) == ~RLess(b, a)

RMin(a, b) == IF RLess(b, a) THEN b ELSE a

RECURSIVE SumOver(_, _)
SumOver(f, S) ==
    IF S = {} THEN Zero
    ELSE LET x == CHOOSE y \in S : TRUE
         IN  RAdd(f[x], SumOver(f, S \ {x}))

\* a dict built once and held by value
Dict(f) == f @@ <<>>

\* dict.get(key, default)
Get(m, k, default) == IF k \in DOMAIN m THEN m[k] ELSE default

---------------------------------------------------------------------------
(* Category registry: self.emotions, in dict insertion order.              *)

emotions == <<"anxious", "sad", "frustrated", "overwhelmed", "calm", "happy", "neutral", "tired">>

EmotionKeys == {emotions[i] : i \in DOMAIN emotions}

\* {emotion: 0.0 for emotion in self.emotions.keys()}
ZeroScores == Dict([e \in EmotionKeys |-> Zero])

\* position of a key in a sequence of distinct keys
IndexOf(seq, k) == CHOOSE i \in DOMAIN seq : seq[i] = k

\* max(d.items(), key=lambda x: x[1]) of a dict whose keys are iterated in
\* the order keyOrder: the first key, in that order, holding the largest value
\* variant: min in place of max
MinItem(scores, keyOrder) ==
    keyOrder[CHOOSE i \in DOMAIN keyOrder :
        /\ \A j \in DOMAIN keyOrder : RLeq(scores[keyOrder[i]], scores[keyOrder[j]])
        /\ \A j \in DOMAIN keyOrder :
              (scores[keyOrder[j]] = scores[keyOrder[i]]) => i <= j]

MaxItem(scores, keyOrder) ==
    keyOrder[CHOOSE i \in DOMAIN keyOrder :
        /\ \A j \in DOMAIN keyOrder : RLeq(scores[keyOrder[j]], scores[keyOrder[i]])
        /\ \A j \in DOMAIN keyOrder :
              (scores[keyOrder[j]] = scores[keyOrder[i]]) => i <= j]

\* max(scores.values())
MaxValue(scores) ==
    LET k == CHOOSE k \in DOMAIN scores :
                 \A j \in DOMAIN scores : RLeq(scores[j], scores[k])
    IN  scores[k]

\* "Normalize scores to 0-1 range": divide by the maximum, or by 1 when the
\* maximum is not positive
\* variant: division by the sum of the values in place of their maximum
NormalizeBySum(scores) ==
    LET total == SumOver(scores, DOMAIN scores)
        max_score == IF RLess(Zero, total) THEN total ELSE One
    IN  [e \in DOMAIN scores |-> RDiv(scores[e], max_score)]

Normalize(scores) ==
    LET max_score == IF RLess(Zero, MaxValue(scores)) THEN MaxValue(scores) ELSE One
    IN  Dict([e \in DOMAIN scores |-> RDiv(scores[e], max_score)])

---------------------------------------------------------------------------
(* Question scoring weights, self.question_weights, in tenths.             *)

T(x) == R(x, 10)

QuestionWeights ==
    [ energy_level |->
        [ high     |-> ("happy" :> T(8)) @@ ("anxious" :> T(3)) @@ ("frustrated" :> T(2)),
          moderate |-> ("calm" :> T(7)) @@ ("neutral" :> T(3)),
          low      |-> ("sad" :> T(7)) @@ ("tired" :> T(8)) @@ ("overwhelmed" :> T(3)) @@ ("neutral" :> T(2)) ],
      thoughts |->
        [ racing  |-> ("anxious" :> T(8)) @@ ("overwhelmed" :> T(9)) @@ ("frustrated" :> T(3)),
          flowing |-> ("calm" :> T(9)) @@ ("happy" :> T(5)),
          stuck   |-> ("overwhelmed" :> T(9)) @@ ("sad" :> T(6)) @@ ("neutral" :> T(2)) ],
      physical |->
        [ tense   |-> ("anxious" :> T(8)) @@ ("frustrated" :> T(7)) @@ ("overwhelmed" :> T(6)),
          neutral |-> ("calm" :> T(6)) @@ ("neutral" :> T(5)),
          relaxed |-> ("calm" :> T(9)) @@ ("happy" :> T(4)) ],
      worry |->
        [ nothing    |-> ("calm" :> T(8)) @@ ("happy" :> T(5)) @@ ("neutral" :> T(2)),
          few_things |-> ("anxious" :> T(5)) @@ ("overwhelmed" :> T(4)),
          a_lot      |-> ("anxious" :> T(8)) @@ ("overwhelmed" :> T(9)) ],
      feeling_like |->
        [ crying    |-> ("sad" :> T(9)) @@ ("overwhelmed" :> T(6)),
          screaming |-> ("frustrated" :> T(9)) @@ ("overwhelmed" :> T(4)) @@ ("anxious" :> T(3)),
          laughing  |-> ("happy" :> T(9)) @@ ("calm" :> T(5)),
          nothing   |-> ("neutral" :> T(7)) @@ ("overwhelmed" :> T(4)) @@ ("calm" :> T(2)) @@ ("sad" :> T(2)) @@ ("tired" :> T(2)) ],
      mood_comparison |->
        [ better |-> ("happy" :> T(8)) @@ ("calm" :> T(4)),
          same   |-> ("neutral" :> T(5)) @@ ("calm" :> T(4)),
          worse  |-> ("sad" :> T(7)) @@ ("anxious" :> T(5)) @@ ("overwhelmed" :> T(4)) @@ ("tired" :> T(3)) ],
      need_most |->
        [ company |-> ("sad" :> T(6)) @@ ("anxious" :> T(3)),
          rest    |-> ("tired" :> T(9)) @@ ("overwhelmed" :> T(5)) @@ ("calm" :> T(3)),
          focus   |-> ("anxious" :> T(5)) @@ ("overwhelmed" :> T(6)),
          action  |-> ("frustrated" :> T(8)) @@ ("overwhelmed" :> T(3)) @@ ("anxious" :> T(3)) ] ]

\* scores[emotion] += weight on an emotion the registry does not hold: KeyError
Raises_score_initial_responses(qw, responses) ==
    \E q \in DOMAIN responses :
        /\ q \in DOMAIN qw
        /\ responses[q] \in DOMAIN qw[q]
        /\ ~(DOMAIN qw[q][responses[q]] \subseteq EmotionKeys)

\* variant: an answer the table does not list for a known question counts
\* as a weak sign of 'neutral'
score_initial_responses_lenient(qw, responses) ==
    LET asked == {q \in DOMAIN responses : q \in DOMAIN qw}
        scores == Dict([e \in EmotionKeys |->
                      SumOver([q \in asked |->
                                  IF responses[q] \in DOMAIN qw[q]
                                  THEN Get(qw[q][responses[q]], e, Zero)
                                  ELSE IF e = "neutral" THEN T(5) ELSE Zero], asked)])
    IN  Normalize(scores)

score_initial_responses(qw, responses) ==
    LET matched == {q \in DOMAIN responses :
                        q \in DOMAIN qw /\ responses[q] \in DOMAIN qw[q]}
        scores == Dict([e \in EmotionKeys |->
                      SumOver([q \in matched |-> Get(qw[q][responses[q]], e, Zero)], matched)])
    IN  Normalize(scores)

---------------------------------------------------------------------------
(* Journaling text.  A text is a tuple of characters; journaling_responses *)
(* is the sequence of the dict's values in insertion order, each value the *)
(* name of a text of Corpus.                                               *)

Upper == <<"A","B","C","D","E","F","G","H","I","J","K","L","M",
           "N","O","P","Q","R","S","T","U","V","W","X","Y","Z">>

Lower == <<"a","b","c","d","e","f","g","h","i","j","k","l","m",
           "n","o","p","q","r","s","t","u","v","w","x","y","z">>

\* str.lower()
lower(s) ==
    [i \in DOMAIN s |->
        IF \E u \in DOMAIN Upper : Upper[u] = s[i]
        THEN Lower[CHOOSE u \in DOMAIN Upper : Upper[u] = s[i]]
        ELSE s[i]]

\* str.strip()
strip(s) ==
    LET solid == {i \in DOMAIN s : s[i] # " "}
    IN  IF solid = {} THEN <<>>
        ELSE LET first == CHOOSE i \in solid : \A j \in solid : i <= j
                 last == CHOOSE i \in solid : \A j \in solid : j <= i
             IN  SubSeq(s, first, last)

\* keyword in text
Contains(text, keyword) ==
    \E i \in 0..(Len(text) - Len(keyword)) :
        \A j \in DOMAIN keyword : text[i + j] = keyword[j]

\* "Keywords and phrases that indicate specific emotions"
emotion_keywords ==
      "anxious" :> <<
           <<"w","o","r","r","i","e","d">>,
           <<"a","n","x","i","o","u","s">>,
           <<"n","e","r","v","o","u","s">>,
           <<"s","t","r","e","s","s","e","d">>,
           <<"p","a","n","i","c">>,
           <<"f","e","a","r">>,
           <<"s","c","a","r","e","d">>,
           <<"r","a","c","i","n","g"," ","t","h","o","u","g","h","t","s">>,
           <<"c","a","n","'","t"," ","s","t","o","p"," ","t","h","i","n","k","i","n","g">>,
           <<"o","v","e","r","w","h","e","l","m","i","n","g">>,
           <<"t","e","n","s","e">>,
           <<"h","e","a","r","t"," ","r","a","c","i","n","g">>,
           <<"s","w","e","a","t","i","n","g">>,
           <<"s","h","a","k","i","n","g">>,
           <<"r","e","s","t","l","e","s","s">>
       >>
    @@ "sad" :> <<
           <<"s","a","d">>,
           <<"d","e","p","r","e","s","s","e","d">>,
           <<"d","o","w","n">>,
           <<"h","o","p","e","l","e","s","s">>,
           <<"e","m","p","t","y">>,
           <<"l","o","n","e","l","y">>,
           <<"c","r","y","i","n","g">>,
           <<"t","e","a","r","s">>,
           <<"g","r","i","e","f">>,
           <<"l","o","s","s">>,
           <<"d","i","s","a","p","p","o","i","n","t","e","d">>,
           <<"h","u","r","t">>,
           <<"b","r","o","k","e","n">>,
           <<"h","e","a","v","y">>,
           <<"c","a","n","'","t"," ","g","e","t"," ","o","u","t"," ","o","f"," ","b","e","d">>,
           <<"n","o"," ","e","n","e","r","g","y">>,
           <<"w","o","r","t","h","l","e","s","s">>
       >>
    @@ "frustrated" :> <<
           <<"f","r","u","s","t","r","a","t","e","d">>,
           <<"a","n","g","r","y">>,
           <<"m","a","d">>,
           <<"i","r","r","i","t","a","t","e","d">>,
           <<"a","n","n","o","y","e","d">>,
           <<"f","u","r","i","o","u","s">>,
           <<"r","a","g","e">>,
           <<"e","x","p","l","o","s","i","v","e">>,
           <<"c","a","n","'","t"," ","t","a","k","e"," ","i","t">>,
           <<"f","e","d"," ","u","p">>,
           <<"s","i","c","k"," ","o","f">>,
           <<"w","a","n","t"," ","t","o"," ","s","c","r","e","a","m">>,
           <<"p","u","n","c","h"," ","s","o","m","e","t","h","i","n","g">>,
           <<"s","o"," ","a","n","g","r","y">>
       >>
    @@ "overwhelmed" :> <<
           <<"o","v","e","r","w","h","e","l","m","e","d">>,
           <<"t","o","o"," ","m","u","c","h">>,
           <<"c","a","n","'","t"," ","c","o","p","e">>,
           <<"d","r","o","w","n","i","n","g">>,
           <<"s","t","u","c","k">>,
           <<"p","a","r","a","l","y","z","e","d">>,
           <<"f","r","o","z","e","n">>,
           <<"d","o","n","'","t"," ","k","n","o","w"," ","w","h","e","r","e"," ","t","o"," ","s","t","a","r","t">>,
           <<"e","v","e","r","y","t","h","i","n","g"," ","a","t"," ","o","n","c","e">>,
           <<"t","o","o"," ","m","a","n","y"," ","t","h","i","n","g","s">>,
           <<"c","a","n","'","t"," ","h","a","n","d","l","e">>,
           <<"b","r","e","a","k","i","n","g"," ","d","o","w","n">>
       >>
    @@ "calm" :> <<
           <<"c","a","l","m">>,
           <<"p","e","a","c","e","f","u","l">>,
           <<"r","e","l","a","x","e","d">>,
           <<"c","e","n","t","e","r","e","d">>,
           <<"b","a","l","a","n","c","e","d">>,
           <<"s","e","r","e","n","e">>,
           <<"c","o","n","t","e","n","t">>,
           <<"a","t"," ","e","a","s","e">>,
           <<"c","o","m","f","o","r","t","a","b","l","e">>,
           <<"b","r","e","a","t","h","i","n","g"," ","e","a","s","y">>,
           <<"q","u","i","e","t"," ","m","i","n","d">>,
           <<"p","e","a","c","e","f","u","l">>,
           <<"t","r","a","n","q","u","i","l">>,
           <<"g","r","o","u","n","d","e","d">>
       >>
    @@ "happy" :> <<
           <<"h","a","p","p","y">>,
           <<"j","o","y","f","u","l">>,
           <<"e","x","c","i","t","e","d">>,
           <<"e","n","e","r","g","i","z","e","d">>,
           <<"p","o","s","i","t","i","v","e">>,
           <<"o","p","t","i","m","i","s","t","i","c">>,
           <<"g","r","a","t","e","f","u","l">>,
           <<"b","l","e","s","s","e","d">>,
           <<"l","u","c","k","y">>,
           <<"a","m","a","z","i","n","g">>,
           <<"w","o","n","d","e","r","f","u","l">>,
           <<"f","a","n","t","a","s","t","i","c">>,
           <<"s","m","i","l","i","n","g">>,
           <<"l","a","u","g","h","i","n","g">>,
           <<"c","e","l","e","b","r","a","t","i","n","g">>
       >>
    @@ "neutral" :> <<
           <<"o","k","a","y">>,
           <<"f","i","n","e">>,
           <<"n","e","u","t","r","a","l">>,
           <<"n","o","t","h","i","n","g">>,
           <<"e","m","p","t","y">>,
           <<"n","u","m","b">>,
           <<"f","l","a","t">>,
           <<"d","o","n","'","t"," ","f","e","e","l"," ","a","n","y","t","h","i","n","g">>,
           <<"m","e","h">>,
           <<"w","h","a","t","e","v","e","r">>,
           <<"i","n","d","i","f","f","e","r","e","n","t">>,
           <<"b","o","r","e","d">>
       >>
    @@ "tired" :> <<
           <<"t","i","r","e","d">>,
           <<"e","x","h","a","u","s","t","e","d">>,
           <<"d","r","a","i","n","e","d">>,
           <<"f","a","t","i","g","u","e","d">>,
           <<"w","o","r","n"," ","o","u","t">>,
           <<"b","u","r","n","e","d"," ","o","u","t">>,
           <<"n","o"," ","e","n","e","r","g","y">>,
           <<"c","a","n","'","t"," ","k","e","e","p"," ","g","o","i","n","g">>,
           <<"n","e","e","d"," ","r","e","s","t">>,
           <<"s","l","e","e","p","y">>,
           <<"l","e","t","h","a","r","g","i","c">>,
           <<"r","u","n","n","i","n","g"," ","o","n"," ","e","m","p","t","y">>,
           <<"d","e","p","l","e","t","e","d">>
       >>

\* the texts the requests draw their journaling responses from
Corpus ==
      "empty" :> <<>>
    @@ "blank" :> <<" "," "," ">>
    @@ "plain" :> <<"T","h","e"," ","s","k","y"," ","i","s"," ","b","l","u","e">>
    @@ "meh" :> <<"M","e","h">>
    @@ "sadx3" :> <<"S","a","d",","," ","s","a","d",","," ","S","A","D">>
    @@ "angry" :> <<"s","o"," ","a","n","g","r","y"," ","a","n","d"," ","m","a","d">>
    @@ "peace" :> <<"c","a","l","m"," ","a","n","d"," ","p","e","a","c","e","f","u","l">>
    @@ "drain" :> <<"s","a","d"," ","a","n","d"," ","t","i","r","e","d">>
    @@ "a1" :> <<"M","y"," ","h","e","a","r","t"," ","i","s"," ","r","a","c","i","n","g"," ","a","n","d"," ","I"," ","c","a","n","'","t"," ","s","t","o","p"," ","t","h","i","n","k","i","n","g"," ","a","b","o","u","t"," ","e","v","e","r","y","t","h","i","n","g"," ","g","o","i","n","g"," ","w","r","o","n","g">>
    @@ "a2" :> <<"I","'","m"," ","s","o"," ","w","o","r","r","i","e","d"," ","a","b","o","u","t"," ","t","h","e"," ","d","e","a","d","l","i","n","e"," ","a","n","d"," ","w","h","a","t"," ","o","t","h","e","r","s"," ","w","i","l","l"," ","t","h","i","n","k">>
    @@ "a3" :> <<"M","y"," ","s","h","o","u","l","d","e","r","s"," ","a","r","e"," ","s","o"," ","t","e","n","s","e"," ","I"," ","c","a","n"," ","b","a","r","e","l","y"," ","m","o","v","e">>
    @@ "a4" :> <<"I"," ","n","e","e","d"," ","t","o"," ","f","i","n","d"," ","a"," ","w","a","y"," ","t","o"," ","c","a","l","m"," ","d","o","w","n",","," ","m","a","y","b","e"," ","s","o","m","e"," ","d","e","e","p"," ","b","r","e","a","t","h","i","n","g">>
    @@ "b1" :> <<"E","v","e","r","y","t","h","i","n","g"," ","f","e","e","l","s"," ","s","o"," ","e","m","p","t","y"," ","a","n","d"," ","h","o","p","e","l","e","s","s"," ","r","i","g","h","t"," ","n","o","w">>
    @@ "b2" :> <<"M","y"," ","b","o","d","y"," ","f","e","e","l","s"," ","h","e","a","v","y",","," ","l","i","k","e"," ","I"," ","c","a","n","'","t"," ","m","o","v","e">>
    @@ "b3" :> <<"I"," ","w","i","s","h"," ","s","o","m","e","o","n","e"," ","u","n","d","e","r","s","t","o","o","d"," ","h","o","w"," ","m","u","c","h"," ","p","a","i","n"," ","I","'","m"," ","i","n">>
    @@ "b4" :> <<"I"," ","u","s","e","d"," ","t","o"," ","c","a","l","l"," ","f","r","i","e","n","d","s"," ","b","u","t"," ","I","'","m"," ","t","o","o"," ","s","a","d"," ","t","o"," ","r","e","a","c","h"," ","o","u","t">>

TextIds == DOMAIN Corpus

\* one response scanned: per emotion, the number of entries of its keyword
\* list found in the lower-cased text
KeywordHits ==
    [t \in TextIds |->
        [e \in EmotionKeys |->
            Cardinality({k \in DOMAIN emotion_keywords[e] :
                            Contains(lower(Corpus[t]), emotion_keywords[e][k])})]]

\* not response_text or not response_text.strip()
IsBlank(t) == Len(Corpus[t]) = 0 \/ Len(strip(Corpus[t])) = 0

BlankTexts == {t \in TextIds : IsBlank(t)}

\* the counters of the text scorer before they are normalized: blank
\* responses are passed over, every other response adds 1.0 to an emotion
\* for each entry of its keyword list found in the text
keyword_counts(responses) ==
    LET scanned == {i \in DOMAIN responses : responses[i] \notin BlankTexts}
    IN  Dict([e \in EmotionKeys |->
                SumOver([i \in scanned |-> R(KeywordHits[responses[i]][e], 1)], scanned)])

\* variant: an empty dict of responses scored as {'calm': 0.5}, the default
\* the fusion system gives a source without scores
score_journaling_responses_default(responses) ==
    IF Len(responses) = 0 THEN "calm" :> R(5, 10)
    ELSE LET scanned == {i \in DOMAIN responses : responses[i] \notin BlankTexts}
             scores == Dict([e \in EmotionKeys |->
                           SumOver([i \in scanned |-> R(KeywordHits[responses[i]][e], 1)], scanned)])
         IN  Normalize(scores)

score_journaling_responses(responses) ==
    IF Len(responses) = 0 THEN ZeroScores
    ELSE Normalize(keyword_counts(responses))

---------------------------------------------------------------------------
(* Face and voice data: dicts with optional keys "cluster_scores" (a map  *)
(* from the analyzer's tags to scores) and "actionable_category".          *)

EmptyDict == [k \in {} |-> Zero]

\* truth value of an Optional[Dict]
Truthy(d) == d # None /\ DOMAIN d # {}

\* "Map face emotions to our simplified categories"
face_mapping ==
    [stressed |-> "anxious", anxious |-> "anxious", frustrated |-> "frustrated",
     sad |-> "sad", overwhelmed |-> "overwhelmed", positive |-> "happy",
     calm |-> "calm", energized |-> "happy"]

\* "Map voice emotions to our simplified categories"
voice_mapping ==
    [stressed |-> "anxious", anxious |-> "anxious", frustrated |-> "frustrated",
     sad |-> "sad", overwhelmed |-> "overwhelmed", positive |-> "happy",
     calm |-> "calm", energized |-> "happy"]

\* variant: a bucket keeps the largest score mapped to it in place of the sum
AccumulateLargest(tag_scores, mapping) ==
    Dict([e \in EmotionKeys |->
        LET tags == {t \in DOMAIN tag_scores : t \in DOMAIN mapping /\ mapping[t] = e}
        IN  IF tags = {} THEN Zero
            ELSE MaxValue([t \in tags |-> tag_scores[t]])])

\* the tag scores added into the buckets of their mapped categories
Accumulate(tag_scores, mapping) ==
    Dict([e \in EmotionKeys |->
        LET tags == {t \in DOMAIN tag_scores : t \in DOMAIN mapping /\ mapping[t] = e}
        IN  SumOver(tag_scores, tags)])

\* face_scores.items() on a value that is no dict: AttributeError
Raises_score_face(face_data) ==
    /\ Truthy(face_data)
    /\ "cluster_scores" \in DOMAIN face_data
    /\ face_data["cluster_scores"] = None

score_face(face_data) ==
    IF ~Truthy(face_data) \/ "cluster_scores" \notin DOMAIN face_data
    THEN ZeroScores
    ELSE Normalize(Accumulate(face_data["cluster_scores"], face_mapping))

Raises_score_voice(voice_data) ==
    /\ Truthy(voice_data)
    /\ "cluster_scores" \in DOMAIN voice_data
    /\ voice_data["cluster_scores"] = None

score_voice(voice_data) ==
    IF ~Truthy(voice_data) \/ "cluster_scores" \notin DOMAIN voice_data
    THEN ZeroScores
    ELSE Normalize(Accumulate(voice_data["cluster_scores"], voice_mapping))

---------------------------------------------------------------------------
(* The voice analyzer: characteristics of a recording to emotion scores.  *)

\* self.emotion_mapping, in dict insertion order (the order of emotions)
voice_emotion_mapping ==
    [anxious |-> [pitch |-> "high", pitch_variation |-> "high", speech_rate |-> "fast",
                  volume |-> "normal", tremor |-> "high", breathiness |-> "high"],
     sad |-> [pitch |-> "low", pitch_variation |-> "low", speech_rate |-> "slow",
              volume |-> "quiet", tremor |-> "normal", breathiness |-> "normal"],
     frustrated |-> [pitch |-> "high", pitch_variation |-> "high", speech_rate |-> "fast",
                     volume |-> "loud", tremor |-> "normal", breathiness |-> "normal"],
     overwhelmed |-> [pitch |-> "high", pitch_variation |-> "high", speech_rate |-> "fast",
                      volume |-> "normal", tremor |-> "high", breathiness |-> "high"],
     calm |-> [pitch |-> "normal", pitch_variation |-> "normal", speech_rate |-> "normal",
               volume |-> "normal", tremor |-> "low", breathiness |-> "low"],
     happy |-> [pitch |-> "high", pitch_variation |-> "high", speech_rate |-> "fast",
                volume |-> "loud", tremor |-> "low", breathiness |-> "low"],
     neutral |-> [pitch |-> "normal", pitch_variation |-> "normal", speech_rate |-> "normal",
                  volume |-> "normal", tremor |-> "normal", breathiness |-> "normal"],
     tired |-> [pitch |-> "low", pitch_variation |-> "low", speech_rate |-> "slow",
                volume |-> "quiet", tremor |-> "normal", breathiness |-> "high"]]

\* expected in similarity_map.get(actual, [])
is_similar(actual, expected) ==
    CASE actual = "high" -> expected = "normal"
      [] actual = "normal" -> expected \in {"high", "low"}
      [] actual = "low" -> expected = "normal"
      [] OTHER -> FALSE

\* 1.0 for each characteristic that matches the expected value, 0.5 for a
\* similar one, divided by the number of characteristics compared
map_voice_to_emotion(characteristics) ==
    LET compared(e) == DOMAIN voice_emotion_mapping[e] \cap DOMAIN characteristics
        halves(e) ==
            2 * Cardinality({c \in compared(e) :
                                characteristics[c] = voice_emotion_mapping[e][c]})
            + Cardinality({c \in compared(e) :
                              /\ characteristics[c] # voice_emotion_mapping[e][c]
                              /\ is_similar(characteristics[c], voice_emotion_mapping[e][c])})
        emotion_scores ==
            Dict([e \in DOMAIN voice_emotion_mapping |->
                     IF compared(e) = {} THEN Zero
                     ELSE R(halves(e), 2 * Cardinality(compared(e)))])
        dominant == MaxItem(emotion_scores, emotions)
    IN  [emotion_scores |-> emotion_scores,
         dominant_emotion |-> dominant,
         confidence |-> emotion_scores[dominant]]

\* the record analyze_complete_voice returns for a recording with the given
\* characteristics (the fields the detector can read)
analyze_complete_voice(characteristics) ==
    LET emotion_mapping == map_voice_to_emotion(characteristics)
    IN  [emotion_scores |-> emotion_mapping.emotion_scores,
         dominant_emotion |-> emotion_mapping.dominant_emotion,
         confidence |-> emotion_mapping.confidence,
         actionable_category |-> emotion_mapping.dominant_emotion]

\* recordings: a low slow quiet voice, a high fast trembling voice, an even voice
VoiceCharacteristics ==
    {[pitch |-> "low", pitch_variation |-> "low", speech_rate |-> "slow",
      volume |-> "quiet", tremor |-> "normal", breathiness |-> "normal"],
     [pitch |-> "high", pitch_variation |-> "high", speech_rate |-> "fast",
      volume |-> "normal", tremor |-> "high", breathiness |-> "high"],
     [pitch |-> "normal", pitch_variation |-> "normal", speech_rate |-> "normal",
      volume |-> "normal", tremor |-> "low", breathiness |-> "low"]}

VoiceResults == {analyze_complete_voice(c) : c \in VoiceCharacteristics}

---------------------------------------------------------------------------
(* Fusion of the four source maps, confidence, indicators, actions.        *)

\* variant: the weights of the sources that are present renormalised to sum to 1
combine_scores_renormalized(initial_scores, journaling_scores, face_scores, voice_scores) ==
    LET present == RAdd(RAdd(R(7, 10), IF DOMAIN face_scores # {} THEN R(2, 10) ELSE Zero),
                        IF DOMAIN voice_scores # {} THEN R(1, 10) ELSE Zero)
    IN  Dict([emotion \in EmotionKeys |->
            RDiv(RAdd(RAdd(RAdd(RMul(Get(initial_scores, emotion, Zero), R(3, 10)),
                                RMul(Get(journaling_scores, emotion, Zero), R(4, 10))),
                           RMul(Get(face_scores, emotion, Zero), R(2, 10))),
                      RMul(Get(voice_scores, emotion, Zero), R(1, 10))),
                 present)])

\* variant: the plain mean of the four sources
combine_scores_mean(initial_scores, journaling_scores, face_scores, voice_scores) ==
    Dict([emotion \in EmotionKeys |->
        RMul(RAdd(RAdd(RAdd(Get(initial_scores, emotion, Zero),
                            Get(journaling_scores, emotion, Zero)),
                       Get(face_scores, emotion, Zero)),
                  Get(voice_scores, emotion, Zero)),
             R(1, 4))])

combine_scores(initial_scores, journaling_scores, face_scores, voice_scores) ==
    Dict([emotion \in EmotionKeys |->
        RAdd(RAdd(RAdd(RMul(Get(initial_scores, emotion, Zero), R(3, 10)),
                       RMul(Get(journaling_scores, emotion, Zero), R(4, 10))),
                  RMul(Get(face_scores, emotion, Zero), R(2, 10))),
             RMul(Get(voice_scores, emotion, Zero), R(1, 10)))])

\* sorted(scores.items(), key=lambda x: x[1], reverse=True)[1][1]
SecondBest(scores) ==
    LET top == MaxItem(scores, emotions)
    IN  MaxValue([e \in (DOMAIN scores) \ {top} |-> scores[e]])

\* variant: the strength adjustment tests the boosted confidence in place
\* of the dominant score
calculate_confidence_on_boosted(scores, dominant_emotion) ==
    LET score == scores[dominant_emotion]
        separation == RSub(score, SecondBest(scores))
        boosted ==
            IF Cardinality(DOMAIN scores) < 2 THEN score
            ELSE IF RLess(R(3, 10), separation) THEN RAdd(score, R(35, 100))
            ELSE IF RLess(R(15, 100), separation) THEN RAdd(score, RMul(separation, R(5, 10)))
            ELSE RAdd(score, RMul(separation, R(2, 10)))
        adjusted ==
            IF RLess(boosted, R(3, 10)) THEN RMul(boosted, R(7, 10))
            ELSE IF RLess(R(6, 10), boosted) THEN RMin(RAdd(boosted, R(15, 100)), One)
            ELSE boosted
    IN  RMin(adjusted, One)

\* variant: without the two min(..., 1.0)
calculate_confidence_uncapped(scores, dominant_emotion) ==
    LET score == scores[dominant_emotion]
        separation == RSub(score, SecondBest(scores))
        boosted ==
            IF Cardinality(DOMAIN scores) < 2 THEN score
            ELSE IF RLess(R(3, 10), separation) THEN RAdd(score, R(35, 100))
            ELSE IF RLess(R(15, 100), separation) THEN RAdd(score, RMul(separation, R(5, 10)))
            ELSE RAdd(score, RMul(separation, R(2, 10)))
    IN  IF RLess(score, R(3, 10)) THEN RMul(boosted, R(7, 10))
        ELSE IF RLess(R(6, 10), score) THEN RAdd(boosted, R(15, 100))
        ELSE boosted

calculate_confidence(scores, dominant_emotion) ==
    LET score == scores[dominant_emotion]
        separation == RSub(score, SecondBest(scores))
        boosted ==
            IF Cardinality(DOMAIN scores) < 2 THEN score
            ELSE IF RLess(R(3, 10), separation) THEN RAdd(score, R(35, 100))
            ELSE IF RLess(R(15, 100), separation) THEN RAdd(score, RMul(separation, R(5, 10)))
            ELSE RAdd(score, RMul(separation, R(2, 10)))
        adjusted ==
            IF RLess(score, R(3, 10)) THEN RMul(boosted, R(7, 10))
            ELSE IF RLess(R(6, 10), score) THEN RMin(RAdd(boosted, R(15, 100)), One)
            ELSE boosted
    IN  RMin(adjusted, One)

indicator_words ==
       "anxious" :> {<<"w","o","r","r","i","e","d">>, <<"n","e","r","v","o","u","s">>, <<"s","t","r","e","s","s","e","d">>, <<"p","a","n","i","c">>}
    @@ "sad" :> {<<"s","a","d">>, <<"d","o","w","n">>, <<"h","o","p","e","l","e","s","s">>, <<"e","m","p","t","y">>}
    @@ "frustrated" :> {<<"a","n","g","r","y">>, <<"m","a","d">>, <<"f","r","u","s","t","r","a","t","e","d">>, <<"i","r","r","i","t","a","t","e","d">>}
    @@ "overwhelmed" :> {<<"o","v","e","r","w","h","e","l","m","e","d">>, <<"t","o","o"," ","m","u","c","h">>, <<"c","a","n","'","t"," ","c","o","p","e">>}

indicator_text ==
       "anxious" :> "Your writing shows signs of worry"
    @@ "sad" :> "Your writing reflects sadness"
    @@ "frustrated" :> "Your writing shows frustration"
    @@ "overwhelmed" :> "Your writing indicates feeling overwhelmed"

\* the journaling indicator: decided by the first substantial response alone
JournalingIndicator(journaling_responses, emotion) ==
    LET substantial == {i \in DOMAIN journaling_responses :
                           Len(strip(Corpus[journaling_responses[i]])) > 10}
    IN  IF substantial = {} THEN <<>>
        ELSE LET i == CHOOSE i \in substantial : \A j \in substantial : i <= j
                 response_lower == lower(Corpus[journaling_responses[i]])
             IN  IF /\ emotion \in DOMAIN indicator_words
                    /\ \E word \in indicator_words[emotion] : Contains(response_lower, word)
                 THEN <<indicator_text[emotion]>>
                 ELSE <<>>

\* initial_responses.get(question) == answer
Answered(initial_responses, question, answer) ==
    question \in DOMAIN initial_responses /\ initial_responses[question] = answer

\* data and data.get('actionable_category') == emotion
Selected(data, emotion) ==
    /\ Truthy(data)
    /\ "actionable_category" \in DOMAIN data
    /\ data["actionable_category"] = emotion

\* the value analyze_complete_face returns when it fails: the tuple
\* (None, status).  A tuple is truthy, holds no key, and has no get method.
FailureTuple == [tuple |-> "Camera not accessible"]

IsTuple(data) == data # None /\ "tuple" \in DOMAIN data

\* face_data.get(...) or voice_data.get(...) on a tuple: AttributeError
Raises_get_indicators(face_data, voice_data) ==
    IsTuple(face_data) \/ IsTuple(voice_data)

If(cond, text) == IF cond THEN <<text>> ELSE <<>>

AllIndicators(initial_responses, journaling_responses, face_data, voice_data, emotion) ==
       If(Answered(initial_responses, "thoughts", "racing") /\ emotion \in {"anxious", "overwhelmed"},
          "Your thoughts are racing")
    \o If(Answered(initial_responses, "energy_level", "low") /\ emotion \in {"sad", "tired"},
          "Your energy feels low")
    \o If(Answered(initial_responses, "physical", "tense") /\ emotion \in {"anxious", "frustrated"},
          "You feel physically tense")
    \o If(Answered(initial_responses, "feeling_like", "crying") /\ emotion = "sad",
          "You feel like crying")
    \o If(Answered(initial_responses, "feeling_like", "screaming") /\ emotion = "frustrated",
          "You feel like screaming")
    \o If(Answered(initial_responses, "feeling_like", "laughing") /\ emotion = "happy",
          "You feel like laughing")
    \o JournalingIndicator(journaling_responses, emotion)
    \o If(Selected(face_data, emotion), "Your facial expression shows this emotion")
    \o If(Selected(voice_data, emotion), "Your voice tone indicates this emotion")

\* variant: the last three indicators are kept in place of the first three
get_indicators_last(initial_responses, journaling_responses, face_data, voice_data, emotion) ==
    LET indicators == AllIndicators(initial_responses, journaling_responses,
                                    face_data, voice_data, emotion)
    IN  SubSeq(indicators, IF Len(indicators) < 3 THEN 1 ELSE Len(indicators) - 2,
               Len(indicators))

\* indicators[:3]
get_indicators(initial_responses, journaling_responses, face_data, voice_data, emotion) ==
    LET indicators == AllIndicators(initial_responses, journaling_responses,
                                    face_data, voice_data, emotion)
    IN  SubSeq(indicators, 1, IF Len(indicators) < 3 THEN Len(indicators) ELSE 3)

\* self.emotions[emotion]['name']
emotion_name ==
    [anxious |-> "Anxious/Worried", sad |-> "Sad/Down", frustrated |-> "Frustrated/Angry",
     overwhelmed |-> "Overwhelmed", calm |-> "Calm/Peaceful", happy |-> "Happy/Energized",
     neutral |-> "Neutral/Flat", tired |-> "Tired/Drained"]

\* the action table of _get_actions_for_emotion, by action name
actions ==
    [anxious |->
        [immediate |-> <<"3 Deep Breaths", "5-4-3-2-1 Grounding", "Quick Body Scan">>,
         short_term |-> <<"Take a 10-minute walk", "Write down your worries", "Text a supportive friend">>],
     sad |->
        [immediate |-> <<"Gentle Self-Hug", "Listen to Comforting Music", "Look at Happy Photos">>,
         short_term |-> <<"Take a warm shower", "Call someone you love", "Do something creative">>],
     frustrated |->
        [immediate |-> <<"10 Jumping Jacks", "Scream into Pillow", "Write Frustrations Down">>,
         short_term |-> <<"Go for a run or workout", "Talk to someone about it", "Do something productive">>],
     overwhelmed |->
        [immediate |-> <<"Brain Dump Everything", "Pick Just ONE Thing", "Take 5 Deep Breaths">>,
         short_term |-> <<"Make a simple to-do list", "Say no to one thing", "Ask for help">>],
     calm |->
        [immediate |-> <<"Savor This Moment", "Gentle Stretching", "Gratitude Practice">>,
         short_term |-> <<"Plan something you enjoy", "Have a meaningful conversation", "Do something creative">>],
     happy |->
        [immediate |-> <<"Share Your Joy", "Dance or Move", "Write Down What's Good">>,
         short_term |-> <<"Do something fun", "Help someone else", "Plan more good things">>],
     neutral |->
        [immediate |-> <<"Check In With Body", "Do Something Small", "Connect With Someone">>,
         short_term |-> <<"Try something new", "Reflect on your needs", "Do something meaningful">>],
     tired |->
        [immediate |-> <<"Rest Your Eyes", "Drink Water", "Gentle Stretching">>,
         short_term |-> <<"Take a nap", "Go to bed early", "Reduce commitments">>]]

\* actions.get(emotion, {...})
get_actions_for_emotion(emotion) ==
    Get(actions, emotion,
        [immediate |-> <<"Take a deep breath">>, short_term |-> <<"Check in with yourself">>])

get_fallback_result ==
    [emotion |-> "neutral",
     emotion_name |-> "Neutral/Flat",
     confidence |-> R(5, 10),
     indicators |-> <<"Analysis incomplete">>,
     immediate_actions |-> <<"Take a deep breath">>,
     short_term_actions |-> <<"Check in with yourself">>,
     all_scores |-> ("neutral" :> R(5, 10)),
     analysis_details |-> EmptyDict]

\* an exception leaving a call
Raised == [raised |-> "Exception"]

\* the try block of detect_emotion
detect_emotion_body(qw, initial_responses, journaling_responses, face_data, voice_data) ==
    IF \/ Raises_score_initial_responses(qw, initial_responses)
       \/ Raises_score_face(face_data)
       \/ Raises_score_voice(voice_data)
       \/ Raises_get_indicators(face_data, voice_data)
    THEN Raised
    ELSE
    LET initial_scores == score_initial_responses(qw, initial_responses)
        journaling_scores == score_journaling_responses(journaling_responses)
        face_scores == IF Truthy(face_data) THEN score_face(face_data) ELSE EmptyDict
        voice_scores == IF Truthy(voice_data) THEN score_voice(voice_data) ELSE EmptyDict
        final_scores == combine_scores(initial_scores, journaling_scores, face_scores, voice_scores)
        dominant_emotion == MaxItem(final_scores, emotions)
        chosen == get_actions_for_emotion(dominant_emotion)
    IN  [emotion |-> dominant_emotion,
         emotion_name |-> emotion_name[dominant_emotion],
         confidence |-> calculate_confidence(final_scores, dominant_emotion),
         indicators |-> get_indicators(initial_responses, journaling_responses,
                                       face_data, voice_data, dominant_emotion),
         immediate_actions |-> chosen.immediate,
         short_term_actions |-> chosen.short_term,
         all_scores |-> final_scores,
         analysis_details |->
            [initial_scores |-> initial_scores, journaling_scores |-> journaling_scores,
             face_scores |-> face_scores, voice_scores |-> voice_scores]]

\* variant: detect_emotion without its except clause
detect_emotion_unguarded(qw, initial_responses, journaling_responses, face_data, voice_data) ==
    detect_emotion_body(qw, initial_responses, journaling_responses, face_data, voice_data)

detect_emotion(qw, initial_responses, journaling_responses, face_data, voice_data) ==
    LET r == detect_emotion_body(qw, initial_responses, journaling_responses,
                                 face_data, voice_data)
    IN  IF r = Raised THEN get_fallback_result ELSE r

---------------------------------------------------------------------------
(* The requests the model issues.                                          *)

MaxAnswers == 2      \* structured answers per request, general family
MaxResponses == 2    \* journaling responses per request, general family
MaxTags == 1         \* tags per face or voice score map, general family

\* question ids and answer values a client may send: the weight table's own
\* and one of each that the table does not know
QuestionIds == DOMAIN QuestionWeights \cup {"sleep"}

AnswerValues(q) ==
    (IF q \in DOMAIN QuestionWeights THEN DOMAIN QuestionWeights[q] ELSE {}) \cup {"unsure"}

\* the dicts of at most n structured answers
RECURSIVE AnswerDicts(_)
AnswerDicts(n) ==
    IF n = 0 THEN {EmptyDict}
    ELSE LET smaller == AnswerDicts(n - 1)
         IN  smaller \cup
             UNION {UNION {{d @@ (q :> a) : a \in AnswerValues(q)} :
                              q \in QuestionIds \ DOMAIN d} : d \in smaller}

InitialInputs == AnswerDicts(MaxAnswers)

ScenarioA == [energy_level |-> "high", thoughts |-> "racing", physical |-> "tense", worry |-> "a_lot"]
ScenarioB == [energy_level |-> "low", thoughts |-> "stuck", physical |-> "neutral", feeling_like |-> "crying"]
JournalA == <<"a1", "a2", "a3", "a4">>
JournalB == <<"b1", "b2", "b3", "b4">>

InitialPool == {EmptyDict, ScenarioA, ScenarioB, [sleep |-> "unsure"], [feeling_like |-> "screaming"]}

\* the short texts of the corpus
ShortTexts == {"empty", "blank", "plain", "meh", "sadx3", "angry", "peace", "drain"}

JournalInputs == UNION {[1..n -> ShortTexts] : n \in 0..MaxResponses}

JournalPool == {<<>>, JournalB}

BasePool ==
    {[initial |-> EmptyDict, journaling |-> <<>>],
     [initial |-> ScenarioA, journaling |-> JournalA],
     [initial |-> [feeling_like |-> "screaming"], journaling |-> <<"drain">>]}

TagPool == {"stressed", "anxious", "sad", "positive", "surprised"}
TagScores == {T(0), T(4), T(6)}
CategoryPool == {"anxious", "stressed"}

TagMaps ==
    UNION {[ts -> TagScores] : ts \in {s \in SUBSET TagPool : Cardinality(s) <= MaxTags}}

ModalityInputs ==
    {None, EmptyDict, [cluster_scores |-> None]}
    \cup {[actionable_category |-> c] : c \in CategoryPool}
    \cup {[cluster_scores |-> m] : m \in TagMaps}
    \cup {[cluster_scores |-> m, actionable_category |-> c] : m \in TagMaps, c \in CategoryPool}

ModalityPool ==
    {None,
     [cluster_scores |-> ("sad" :> T(6)) @@ ("calm" :> T(6))],
     [cluster_scores |-> ("positive" :> T(4)) @@ ("energized" :> T(6)) @@ ("anxious" :> T(6)),
      actionable_category |-> "anxious"]}

Requests ==
    [initial : InitialInputs, journaling : JournalPool, face : {None}, voice : {None}]
    \cup [initial : InitialPool, journaling : JournalInputs, face : {None}, voice : {None}]
    \cup {[initial |-> b.initial, journaling |-> b.journaling, face |-> f, voice |-> v] :
             b \in BasePool, f \in ModalityInputs, v \in ModalityPool}
    \cup {[initial |-> b.initial, journaling |-> b.journaling, face |-> f, voice |-> v] :
             b \in BasePool, f \in ModalityPool, v \in ModalityInputs}
    \cup {[initial |-> b.initial, journaling |-> b.journaling, face |-> None, voice |-> v] :
             b \in BasePool \cup {[initial |-> ScenarioB, journaling |-> JournalB]},
             v \in VoiceResults}

---------------------------------------------------------------------------
(* AdvancedEmotionFusionSystem.weighted_fusion.  modality_results maps a   *)
(* modality to None or to the dict its analyzer produced.                  *)

Ensemble == <<"e","n","s","e","m","b","l","e">>

\* the ensemble_info strings of the face analyzer
InfoTexts ==
    [ensemble |-> <<"E","n","s","e","m","b","l","e"," ","o","f"," ","2"," ","m","o","d","e","l","s">>,
     single |-> <<"S","i","n","g","l","e"," ","m","o","d","e","l">>]

\* "Create cluster scores if not present in data structure"
create_cluster_scores(modality, data) ==
    IF modality = "text"
    THEN Get(data, "cluster_scores", "calm" :> R(5, 10))
    ELSE IF modality \in {"face", "voice"} /\ "actionable_category" \in DOMAIN data
    THEN data["actionable_category"] :> Get(data, "category_confidence", R(5, 10))
    ELSE "calm" :> R(5, 10)

\* the cluster scores weighted_fusion takes from one modality's data
ClusterScoresOf(modality, data) ==
    IF modality \in {"text", "face", "voice"} /\ "cluster_scores" \in DOMAIN data
    THEN data["cluster_scores"]
    ELSE create_cluster_scores(modality, data)

base_weights == [text |-> R(10, 10), voice |-> R(8, 10), face |-> R(7, 10)]

\* variant: without the cap at 1.0
calculate_modality_weight_uncapped(modality, data) ==
    LET weight == Get(base_weights, modality, R(5, 10))
        stress == IF /\ modality = "voice"
                     /\ "stress_analysis" \in DOMAIN data
                     /\ DOMAIN data["stress_analysis"] # {}
                     /\ RLess(R(5, 10), Get(data["stress_analysis"], "stress_likelihood", Zero))
                  THEN R(2, 10) ELSE Zero
        agree == IF /\ modality = "face"
                    /\ "ensemble_info" \in DOMAIN data
                    /\ Contains(lower(InfoTexts[data["ensemble_info"]]), Ensemble)
                 THEN R(1, 10) ELSE Zero
        category_confidence == Get(data, "category_confidence", Zero)
        confidence == IF category_confidence # Zero THEN category_confidence
                      ELSE Get(data, "confidence", Zero)
        sure == IF RLess(R(7, 10), confidence) THEN R(1, 10) ELSE Zero
    IN  RAdd(RAdd(RAdd(weight, stress), agree), sure)

\* "Calculate reliability weight for each modality"
calculate_modality_weight(modality, data) ==
    LET weight == Get(base_weights, modality, R(5, 10))
        stress == IF /\ modality = "voice"
                     /\ "stress_analysis" \in DOMAIN data
                     /\ DOMAIN data["stress_analysis"] # {}
                     /\ RLess(R(5, 10), Get(data["stress_analysis"], "stress_likelihood", Zero))
                  THEN R(2, 10) ELSE Zero
        agree == IF /\ modality = "face"
                    /\ "ensemble_info" \in DOMAIN data
                    /\ Contains(lower(InfoTexts[data["ensemble_info"]]), Ensemble)
                 THEN R(1, 10) ELSE Zero
        category_confidence == Get(data, "category_confidence", Zero)
        confidence == IF category_confidence # Zero THEN category_confidence
                      ELSE Get(data, "confidence", Zero)
        sure == IF RLess(R(7, 10), confidence) THEN R(1, 10) ELSE Zero
    IN  RMin(RAdd(RAdd(RAdd(weight, stress), agree), sure), One)

\* valid_results: the modalities that contribute, each with its cluster
\* scores and its weight
ValidResults(results) ==
    LET valid == {m \in DOMAIN results :
                    /\ results[m] # None
                    /\ ClusterScoresOf(m, results[m]) # None
                    /\ DOMAIN ClusterScoresOf(m, results[m]) # {}}
    IN  Dict([m \in valid |->
            [cluster_scores |-> ClusterScoresOf(m, results[m]),
             weight |-> calculate_modality_weight(m, results[m])]])

\* all_categories
AllCategories(results) ==
    UNION {DOMAIN ValidResults(results)[m].cluster_scores : m \in DOMAIN ValidResults(results)}

\* "Calculate overall confidence in the fused result"
calculate_fusion_confidence(valid_results, dominant_emotion) ==
    LET agreeing == {m \in DOMAIN valid_results :
                        /\ dominant_emotion \in DOMAIN valid_results[m].cluster_scores
                        /\ RLess(R(3, 10), valid_results[m].cluster_scores[dominant_emotion])}
        agreement_confidence ==
            IF Cardinality(DOMAIN valid_results) > 0
            THEN R(Cardinality(agreeing), Cardinality(DOMAIN valid_results))
            ELSE Zero
        boosting == {m \in DOMAIN valid_results :
                        /\ dominant_emotion \in DOMAIN valid_results[m].cluster_scores
                        /\ RLess(R(5, 10), valid_results[m].cluster_scores[dominant_emotion])
                        /\ RLess(R(8, 10), valid_results[m].weight)}
        quality_boost == R(Cardinality(boosting), 10)
    IN  RMin(RAdd(agreement_confidence, quality_boost), One)

\* variant: 'high' from a quality score of 3
assess_fusion_quality_generous(valid_results, fusion_confidence) ==
    LET modality_count == Cardinality(DOMAIN valid_results)
        high_quality_modalities ==
            Cardinality({m \in DOMAIN valid_results : RLess(R(8, 10), valid_results[m].weight)})
        quality_score ==
              (IF modality_count >= 3 THEN 2 ELSE IF modality_count >= 2 THEN 1 ELSE 0)
            + (IF RLess(R(8, 10), fusion_confidence) THEN 2
               ELSE IF RLess(R(6, 10), fusion_confidence) THEN 1 ELSE 0)
            + (IF high_quality_modalities >= 2 THEN 1 ELSE 0)
    IN  IF quality_score >= 3 THEN "high"
        ELSE IF quality_score >= 2 THEN "medium"
        ELSE IF quality_score >= 1 THEN "low"
        ELSE "very_low"

\* "Assess the overall quality of the fusion analysis"
assess_fusion_quality(valid_results, fusion_confidence) ==
    LET modality_count == Cardinality(DOMAIN valid_results)
        high_quality_modalities ==
            Cardinality({m \in DOMAIN valid_results : RLess(R(8, 10), valid_results[m].weight)})
        quality_score ==
              (IF modality_count >= 3 THEN 2 ELSE IF modality_count >= 2 THEN 1 ELSE 0)
            + (IF RLess(R(8, 10), fusion_confidence) THEN 2
               ELSE IF RLess(R(6, 10), fusion_confidence) THEN 1 ELSE 0)
            + (IF high_quality_modalities >= 2 THEN 1 ELSE 0)
    IN  IF quality_score >= 4 THEN "high"
        ELSE IF quality_score >= 2 THEN "medium"
        ELSE IF quality_score >= 1 THEN "low"
        ELSE "very_low"

\* variant: per category, the weighted sum divided by the weights of all
\* contributing modalities
FusedScoresOverAll(valid_results, all_categories) ==
    Dict([category \in all_categories |->
        LET holders == {m \in DOMAIN valid_results :
                           category \in DOMAIN valid_results[m].cluster_scores}
            weighted_sum == SumOver([m \in holders |->
                                RMul(valid_results[m].cluster_scores[category],
                                     valid_results[m].weight)], holders)
            total_weight == SumOver([m \in DOMAIN valid_results |-> valid_results[m].weight],
                                    DOMAIN valid_results)
        IN  IF RLess(Zero, total_weight) THEN RDiv(weighted_sum, total_weight) ELSE Zero])

\* fused_scores: per category, the weighted average over the modalities
\* whose cluster scores hold the category
FusedScores(valid_results, all_categories) ==
    Dict([category \in all_categories |->
        LET holders == {m \in DOMAIN valid_results :
                           category \in DOMAIN valid_results[m].cluster_scores}
            weighted_sum == SumOver([m \in holders |->
                                RMul(valid_results[m].cluster_scores[category],
                                     valid_results[m].weight)], holders)
            total_weight == SumOver([m \in holders |-> valid_results[m].weight], holders)
        IN  IF RLess(Zero, total_weight) THEN RDiv(weighted_sum, total_weight) ELSE Zero])

\* the orders in which a set may be iterated
Orders(S) == {s \in [1..Cardinality(S) -> S] : \A x \in S : \E i \in DOMAIN s : s[i] = x}

\* weighted_fusion; keyOrder is the order in which the set all_categories
\* is iterated, which is the insertion order of fused_scores
weighted_fusion(results, keyOrder) ==
    LET valid_results == ValidResults(results)
        fused_scores == FusedScores(valid_results, AllCategories(results))
        dominant == MaxItem(fused_scores, keyOrder)
        fusion_confidence == calculate_fusion_confidence(valid_results, dominant)
    IN  IF DOMAIN valid_results = {} THEN None
        ELSE [dominant_emotion |-> dominant,
              confidence |-> fusion_confidence,
              all_scores |-> fused_scores,
              modalities_used |-> DOMAIN valid_results,
              fusion_method |-> "weighted_probability",
              fusion_quality |-> assess_fusion_quality(valid_results, fusion_confidence),
              modality_details |->
                 [m \in DOMAIN valid_results |->
                     [weight |-> valid_results[m].weight,
                      confidence |-> MaxValue(valid_results[m].cluster_scores)]]]

\* the modality results the model fuses
FusionTags == {"anxious", "sad", "calm"}

FusionMaps ==
    UNION {[ts -> TagScores] : ts \in {s \in SUBSET FusionTags : Cardinality(s) <= MaxTags}}

FusionData ==
    {None, EmptyDict, [cluster_scores |-> None]}
    \cup {[cluster_scores |-> m] : m \in FusionMaps}
    \cup {[cluster_scores |-> m, category_confidence |-> R(8, 10)] : m \in FusionMaps \ {EmptyDict}}
    \cup {[actionable_category |-> c, category_confidence |-> x] :
             c \in {"sad", "stressed"}, x \in {R(4, 10), R(8, 10)}}
    \cup {[actionable_category |-> "anxious"]}

FusionPool(m) ==
    {None, [cluster_scores |-> ("sad" :> T(6)) @@ ("anxious" :> T(6))]}
    \cup (IF m = "voice"
          THEN {[cluster_scores |-> ("sad" :> T(4)), stress_analysis |-> [stress_likelihood |-> R(7, 10)]]}
          ELSE IF m = "face"
          THEN {[cluster_scores |-> ("calm" :> T(6)), ensemble_info |-> "ensemble"]}
          ELSE {[cluster_scores |-> ("anxious" :> T(6)), confidence |-> R(9, 10)]})

Modalities == {"text", "face", "voice"}

\* results that earn every boost of their modality
BoostedInputs ==
    {[face |-> [cluster_scores |-> ("calm" :> T(6)), ensemble_info |-> "ensemble",
                category_confidence |-> R(8, 10)]],
     [voice |-> [cluster_scores |-> ("sad" :> T(4)),
                 stress_analysis |-> [stress_likelihood |-> R(7, 10)], confidence |-> R(9, 10)]],
     [motion |-> [cluster_scores |-> ("calm" :> T(6)), confidence |-> R(9, 10)],
      face |-> [cluster_scores |-> ("calm" :> T(4)), ensemble_info |-> "single"]]}

\* one modality drawn from FusionData, the others from their pools; and a
\* text result next to a modality the fusion has no base weight for
FusionInputs ==
    UNION {{(g :> d) @@ p : d \in FusionData,
                            p \in {q \in [Modalities \ {g} -> UNION {FusionPool(m) : m \in Modalities}] :
                                      \A m \in DOMAIN q : q[m] \in FusionPool(m)}} :
           g \in Modalities}
    \cup {[text |-> d, motion |-> e] :
             d \in FusionPool("text"),
             e \in {None, EmptyDict, [cluster_scores |-> ("calm" :> T(6)), ensemble_info |-> "single"]}}
    \cup BoostedInputs

---------------------------------------------------------------------------
(* QuestionPrompts: the question schema the /api/analyze handler validates *)
(* structured answers against.                                             *)

\* question id -> the values of its options
initial_questions ==
    [energy_level |-> {"high", "moderate", "low"},
     thoughts     |-> {"racing", "flowing", "stuck"},
     physical     |-> {"tense", "neutral", "relaxed"},
     feeling_like |-> {"crying", "screaming", "laughing", "nothing"}]

validate_initial_response(question_id, response) ==
    IF question_id \notin DOMAIN initial_questions THEN FALSE
    ELSE response \in initial_questions[question_id]

---------------------------------------------------------------------------
(* PatternTracker.  A Python dict whose iteration order matters is a       *)
(* sequence of [k, v] records in insertion order.                          *)

ODKeys(od) == {od[i].k : i \in DOMAIN od}

ODGet(od, key, default) ==
    IF key \in ODKeys(od)
    THEN od[CHOOSE i \in DOMAIN od : od[i].k = key].v
    ELSE default

\* od[key] = value: a new key goes last, a known key keeps its place
ODSet(od, key, value) ==
    IF key \in ODKeys(od)
    THEN [i \in DOMAIN od |-> IF od[i].k = key THEN [k |-> key, v |-> value] ELSE od[i]]
    ELSE Append(od, [k |-> key, v |-> value])

\* max(od.items(), key=lambda x: x[1]) over integer values: the first
\* item, in insertion order, that holds the largest value
ODMaxItem(od) ==
    od[CHOOSE i \in DOMAIN od :
          /\ \A j \in DOMAIN od : od[j].v <= od[i].v
          /\ \A j \in DOMAIN od : od[j].v = od[i].v => i <= j]

EmptyPatterns ==
    [check_ins |-> <<>>,
     emotion_counts |-> <<>>,
     daily_patterns |-> <<>>,
     weekly_patterns |-> <<>>,
     triggers |-> <<>>,
     insights |-> <<>>]

trigger_mapping ==
    [energy_level |-> [low |-> "fatigue", high |-> "overstimulation"],
     thoughts     |-> [racing |-> "mental_overload", stuck |-> "feeling_trapped"],
     physical     |-> [tense |-> "physical_stress", relaxed |-> "physical_comfort"],
     worry        |-> [a_lot |-> "high_stress", nothing |-> "low_stress"],
     need_most    |-> [rest |-> "burnout", action |-> "restlessness", company |-> "loneliness"]]

\* the order in which a client's structured answers are iterated: the
\* order of the check-in form
FormOrder ==
    <<"energy_level", "thoughts", "physical", "feeling_like",
      "worry", "mood_comparison", "need_most", "sleep">>

\* the items of a dict of structured answers, in form order
Items(responses) ==
    LET keep == {i \in DOMAIN FormOrder : FormOrder[i] \in DOMAIN responses}
        RECURSIVE Build(_)
        Build(n) ==
            IF n = 0 THEN <<>>
            ELSE IF n \in keep
                 THEN Append(Build(n - 1), [k |-> FormOrder[n], v |-> responses[FormOrder[n]]])
                 ELSE Build(n - 1)
    IN  Build(Len(FormOrder))

RECURSIVE extract_triggers_from(_, _, _)
extract_triggers_from(triggers, items, emotion) ==
    IF items = <<>> THEN triggers
    ELSE LET question == Head(items).k
             answer == Head(items).v
             next ==
                 IF /\ question \in DOMAIN trigger_mapping
                    /\ answer \in DOMAIN trigger_mapping[question]
                 THEN LET trigger == trigger_mapping[question][answer]
                          counts == ODGet(triggers, trigger, <<>>)
                      IN  ODSet(triggers, trigger,
                                ODSet(counts, emotion, ODGet(counts, emotion, 0) + 1))
                 ELSE triggers
         IN  extract_triggers_from(next, Tail(items), emotion)

extract_triggers(triggers, responses, emotion) ==
    extract_triggers_from(triggers, Items(responses), emotion)

\* _get_time_period
get_time_period(hour) ==
    IF 5 <= hour /\ hour < 12 THEN "morning"
    ELSE IF 12 <= hour /\ hour < 17 THEN "afternoon"
    ELSE IF 17 <= hour /\ hour < 21 THEN "evening"
    ELSE "night"

\* seq[-n:]
LastN(seq, n) ==
    IF Len(seq) <= n THEN seq ELSE SubSeq(seq, Len(seq) - n + 1, Len(seq))

\* Counter(keys) as an ordered dict: key -> number of occurrences, in the
\* order of first occurrence
RECURSIVE CountInto(_, _)
CountInto(od, keys) ==
    IF keys = <<>> THEN od
    ELSE CountInto(ODSet(od, Head(keys), ODGet(od, Head(keys), 0) + 1), Tail(keys))

\* hour_emotions of _generate_insights: hour -> emotions of the check-ins
\* of that hour, hours in the order of first occurrence
RECURSIVE GroupByHour(_, _)
GroupByHour(od, cis) ==
    IF cis = <<>> THEN od
    ELSE GroupByHour(ODSet(od, Head(cis).hour,
                           Append(ODGet(od, Head(cis).hour, <<>>), Head(cis).emotion)),
                     Tail(cis))

TimeInsight(item) ==
    IF Len(item.v) >= 2
    THEN LET most_common == ODMaxItem(CountInto(<<>>, item.v))
         IN  IF most_common.v >= 2
             THEN <<[type |-> "time_pattern", about |-> most_common.k,
                     detail |-> get_time_period(item.k), priority |-> "low"]>>
             ELSE <<>>
    ELSE <<>>

TriggerInsight(item) ==
    IF Len(item.v) >= 2
    THEN LET most_common == ODMaxItem(item.v)
         IN  IF most_common.v >= 2
             THEN <<[type |-> "trigger_pattern", about |-> most_common.k,
                     detail |-> item.k, priority |-> "high"]>>
             ELSE <<>>
    ELSE <<>>

RECURSIVE TimeInsights(_)
TimeInsights(hour_emotions) ==
    IF hour_emotions = <<>> THEN <<>>
    ELSE TimeInsight(Head(hour_emotions)) \o TimeInsights(Tail(hour_emotions))

RECURSIVE TriggerInsights(_)
TriggerInsights(triggers) ==
    IF triggers = <<>> THEN <<>>
    ELSE TriggerInsight(Head(triggers)) \o TriggerInsights(Tail(triggers))

generate_insights(p) ==
    LET most ==
            IF p.emotion_counts # <<>>
            THEN LET most_common == ODMaxItem(p.emotion_counts)
                 IN  <<[type |-> "most_common_emotion", about |-> most_common.k,
                        times |-> most_common.v, priority |-> "medium"]>>
            ELSE <<>>
        hours ==
            IF Len(p.check_ins) >= 3
            THEN TimeInsights(GroupByHour(<<>>, LastN(p.check_ins, 10)))
            ELSE <<>>
        trigs == TriggerInsights(p.triggers)
        recent ==
            IF Len(p.check_ins) >= 3
            THEN LET last3 == LastN(p.check_ins, 3)
                 IN  IF last3[1].emotion = last3[2].emotion /\ last3[2].emotion = last3[3].emotion
                     THEN <<[type |-> "recent_trend", about |-> last3[1].emotion,
                             detail |-> "consistently", priority |-> "medium"]>>
                     ELSE <<>>
            ELSE <<>>
    IN  LastN(most \o hours \o trigs \o recent, 10)

\* variant: the day's list is replaced where it should grow
add_check_in_overwrite(p, emotion_data, initial, journaling, now) ==
    LET emotion == emotion_data.emotion
        check_in == [date |-> now.date,
                     day_of_week |-> now.day_of_week,
                     hour |-> now.hour,
                     emotion |-> emotion,
                     emotion_name |-> emotion_data.emotion_name,
                     confidence |-> emotion_data.confidence,
                     indicators |-> emotion_data.indicators,
                     user_responses |-> [initial |-> initial, journaling |-> journaling]]
        p1 == [p EXCEPT
                 !.check_ins = Append(@, check_in),
                 !.emotion_counts = ODSet(@, emotion, ODGet(@, emotion, 0) + 1),
                 !.daily_patterns = ODSet(@, now.date, <<emotion>>),
                 !.weekly_patterns = ODSet(@, now.week, Append(ODGet(@, now.week, <<>>), emotion)),
                 !.triggers = extract_triggers(@, initial, emotion)]
    IN  [p1 EXCEPT !.insights = generate_insights(p1)]

\* add_check_in(emotion_data, user_responses) at time now: the patterns
\* after the call, which _save_patterns also writes to the history file.
\* initial and journaling are the two dicts the handler merges into
\* user_responses; the journaling keys are prompt ids, none of them a key of
\* trigger_mapping.
add_check_in(p, emotion_data, initial, journaling, now) ==
    LET emotion == emotion_data.emotion
        check_in == [date |-> now.date,
                     day_of_week |-> now.day_of_week,
                     hour |-> now.hour,
                     emotion |-> emotion,
                     emotion_name |-> emotion_data.emotion_name,
                     confidence |-> emotion_data.confidence,
                     indicators |-> emotion_data.indicators,
                     user_responses |-> [initial |-> initial, journaling |-> journaling]]
        p1 == [p EXCEPT
                 !.check_ins = Append(@, check_in),
                 !.emotion_counts = ODSet(@, emotion, ODGet(@, emotion, 0) + 1),
                 !.daily_patterns = ODSet(@, now.date, Append(ODGet(@, now.date, <<>>), emotion)),
                 !.weekly_patterns = ODSet(@, now.week, Append(ODGet(@, now.week, <<>>), emotion)),
                 !.triggers = extract_triggers(@, initial, emotion)]
    IN  [p1 EXCEPT !.insights = generate_insights(p1)]

---------------------------------------------------------------------------
(* The /api/analyze handler of moodlens_simplified.py.                     *)

\* RecommendationEngine.format_action_for_ui: the action under its name,
\* with the display details of that name
format_action_for_ui(action) == [name |-> action]

FormatActions(acts) == [i \in DOMAIN acts |-> format_action_for_ui(acts[i])]

confidence_level(confidence) ==
    IF RLess(R(7, 10), confidence) THEN "high"
    ELSE IF RLess(R(5, 10), confidence) THEN "medium"
    ELSE "low"

\* the structured answers validate_initial_response rejects, in the order
\* the handler meets them
InvalidItems(initial_responses) ==
    SelectSeq(Items(initial_responses),
              LAMBDA it : ~validate_initial_response(it.k, it.v))

\* journaling_responses of the body is a JSON object.  A body that carries
\* null or a non-empty array there says so in journaling_json; the detector
\* reads null as no responses (journaling is then <<>>).
JournalingIsObject(data) == "journaling_json" \notin DOMAIN data

\* the part of analyze_emotion after detection: the check-in is stored and
\* the result is formatted; an exception anywhere gives the 500 response
analysis_response(p, data, now, emotion_result) ==
    IF emotion_result = Raised
    THEN [response |-> [status |-> 500, error |-> "Analysis failed"],
          result |-> None, patterns |-> p]
    ELSE IF ~JournalingIsObject(data)
    THEN \* {**initial_responses, **journaling_responses}: TypeError
         [response |-> [status |-> 500, error |-> "Analysis failed"],
          result |-> emotion_result, patterns |-> p]
    ELSE [response |->
             [status |-> 200,
              emotion |-> emotion_result.emotion,
              emotion_name |-> emotion_result.emotion_name,
              confidence |-> emotion_result.confidence,
              indicators |-> emotion_result.indicators,
              immediate_actions |-> FormatActions(emotion_result.immediate_actions),
              short_term_actions |-> FormatActions(emotion_result.short_term_actions),
              analysis_details |->
                 [initial_questions_used |-> Cardinality(DOMAIN data.initial),
                  journaling_responses_used |-> Len(data.journaling),
                  face_analyzed |-> data.face # None,
                  voice_analyzed |-> data.voice # None,
                  confidence_level |-> confidence_level(emotion_result.confidence)]],
          result |-> emotion_result,
          patterns |-> add_check_in(p, emotion_result, data.initial, data.journaling, now)]

\* analyze_emotion: data is the JSON body (None when the request carries
\* none) with face and voice holding what the analyzers made of the
\* uploaded image and audio (None when nothing was uploaded, no analyzer is
\* loaded, or the analysis raised).  The outcome is the HTTP response, the
\* detector's result (None when detection did not run) and the tracker's
\* patterns after the request.
analyze_emotion(qw, p, data, now) ==
    IF data = None
    THEN [response |-> [status |-> 500, error |-> "Analysis failed"],
          result |-> None, patterns |-> p]
    ELSE IF InvalidItems(data.initial) # <<>>
    THEN [response |-> [status |-> 400, error |-> "Invalid response for",
                        question_id |-> InvalidItems(data.initial)[1].k],
          result |-> None, patterns |-> p]
    ELSE analysis_response(p, data, now,
            IF Get(data, "journaling_json", "object") = "array"
            THEN \* responses.items() on a list: AttributeError inside detect_emotion
                 get_fallback_result
            ELSE detect_emotion(qw, data.initial, data.journaling, data.face, data.voice))

MaxCheckIns == 3     \* check-ins the pattern tracker holds

\* the moments at which requests arrive
Times ==
    <<[date |-> "2024-01-01", week |-> "2024-W00", day_of_week |-> "Monday", hour |-> 9],
      [date |-> "2024-01-09", week |-> "2024-W01", day_of_week |-> "Tuesday", hour |-> 22]>>

\* the JSON bodies sent to /api/analyze
ApiRequests ==
    {None,
     [initial |-> EmptyDict, journaling |-> <<>>, face |-> None, voice |-> None],
     [initial |-> ScenarioB, journaling |-> JournalB, face |-> None, voice |-> None],
     [initial |-> [energy_level |-> "high", physical |-> "tense"], journaling |-> <<"angry">>,
      face |-> [cluster_scores |-> ("sad" :> T(6)) @@ ("calm" :> T(6))], voice |-> None],
     [initial |-> ScenarioA, journaling |-> JournalA, face |-> None, voice |-> None],
     [initial |-> [sleep |-> "unsure"], journaling |-> <<"plain">>, face |-> None, voice |-> None],
     [initial |-> [energy_level |-> "unsure"], journaling |-> <<"plain">>, face |-> None, voice |-> None],
     [initial |-> [thoughts |-> "racing", mood_comparison |-> "worse"], journaling |-> <<"sadx3">>,
      face |-> None, voice |-> None],
     [initial |-> [need_most |-> "rest"], journaling |-> <<"drain">>, face |-> None, voice |-> None],
     [initial |-> [energy_level |-> "low"], journaling |-> <<>>, journaling_json |-> "null",
      face |-> None, voice |-> None],
     [initial |-> [energy_level |-> "low"], journaling |-> <<>>, journaling_json |-> "array",
      face |-> None, voice |-> None],
     [initial |-> ScenarioB, journaling |-> JournalB, face |-> FailureTuple, voice |-> None]}

---------------------------------------------------------------------------
(* Concurrent calls on one detector and one fusion system.  A thread runs  *)
(* detect_emotion or weighted_fusion statement by statement: pc names the  *)
(* local variable the next statement assigns, locals holds the ones        *)
(* assigned so far, args the argument objects, given their value at the    *)
(* call.  A statement yields the thread after it and the instance's        *)
(* question_weights after it.                                              *)

MaxThreads == 2

Threads == 1..MaxThreads

IdleThread == [pc |-> "idle"]

Bind(th, name, value, next) ==
    [th EXCEPT !.locals = Dict((name :> value) @@ @), !.pc = next]

Finished(th, value) == [th EXCEPT !.pc = "done", !.result = value]

Outcome(th, qw) == [thread |-> th, question_weights |-> qw]

\* variant: the scorer takes the matched entries out of the instance's
\* weight table while it adds them up
step_initial_scores_in_place(qw, th) ==
    LET responses == th.args.initial
        used(q, a) == q \in DOMAIN responses /\ responses[q] = a
    IN  IF Raises_score_initial_responses(qw, responses)
        THEN Outcome(Finished(th, get_fallback_result), qw)
        ELSE Outcome(Bind(th, "initial_scores", score_initial_responses(qw, responses),
                          "journaling_scores"),
                     [q \in DOMAIN qw |->
                        [a \in DOMAIN qw[q] |-> IF used(q, a) THEN EmptyDict ELSE qw[q][a]]])

\* initial_scores = self._score_initial_responses(initial_responses)
step_initial_scores(qw, th) ==
    IF Raises_score_initial_responses(qw, th.args.initial)
    THEN Outcome(Finished(th, get_fallback_result), qw)
    ELSE Outcome(Bind(th, "initial_scores", score_initial_responses(qw, th.args.initial),
                      "journaling_scores"), qw)

\* the statements of detect_emotion after the first
step_detect(th) ==
    LET a == th.args
        l == th.locals
    IN  CASE th.pc = "journaling_scores" ->
               Bind(th, "journaling_scores", score_journaling_responses(a.journaling), "face_scores")
          [] th.pc = "face_scores" ->
               IF Raises_score_face(a.face) THEN Finished(th, get_fallback_result)
               ELSE Bind(th, "face_scores",
                         IF Truthy(a.face) THEN score_face(a.face) ELSE EmptyDict, "voice_scores")
          [] th.pc = "voice_scores" ->
               IF Raises_score_voice(a.voice) THEN Finished(th, get_fallback_result)
               ELSE Bind(th, "voice_scores",
                         IF Truthy(a.voice) THEN score_voice(a.voice) ELSE EmptyDict, "final_scores")
          [] th.pc = "final_scores" ->
               Bind(th, "final_scores",
                    combine_scores(l["initial_scores"], l["journaling_scores"],
                                   l["face_scores"], l["voice_scores"]), "dominant_emotion")
          [] th.pc = "dominant_emotion" ->
               Bind(th, "dominant_emotion", MaxItem(l["final_scores"], emotions), "confidence")
          [] th.pc = "confidence" ->
               Bind(th, "confidence",
                    calculate_confidence(l["final_scores"], l["dominant_emotion"]), "indicators")
          [] th.pc = "indicators" ->
               IF Raises_get_indicators(a.face, a.voice) THEN Finished(th, get_fallback_result)
               ELSE Bind(th, "indicators",
                         get_indicators(a.initial, a.journaling, a.face, a.voice,
                                        l["dominant_emotion"]),
                         "actions")
          [] th.pc = "actions" ->
               Bind(th, "actions", get_actions_for_emotion(l["dominant_emotion"]), "return")
          [] th.pc = "return" ->
               Finished(th,
                   [emotion |-> l["dominant_emotion"],
                    emotion_name |-> emotion_name[l["dominant_emotion"]],
                    confidence |-> l["confidence"],
                    indicators |-> l["indicators"],
                    immediate_actions |-> l["actions"].immediate,
                    short_term_actions |-> l["actions"].short_term,
                    all_scores |-> l["final_scores"],
                    analysis_details |->
                       [initial_scores |-> l["initial_scores"],
                        journaling_scores |-> l["journaling_scores"],
                        face_scores |-> l["face_scores"],
                        voice_scores |-> l["voice_scores"]]])

\* the statements of weighted_fusion
step_fusion(th) ==
    LET l == th.locals
    IN  CASE th.pc = "valid_results" ->
               IF DOMAIN ValidResults(th.args) = {} THEN Finished(th, None)
               ELSE Bind(th, "valid_results", ValidResults(th.args), "fused_scores")
          [] th.pc = "fused_scores" ->
               Bind(th, "fused_scores",
                    FusedScores(l["valid_results"],
                                UNION {DOMAIN l["valid_results"][m].cluster_scores :
                                          m \in DOMAIN l["valid_results"]}),
                    "top_category")
          [] th.pc = "top_category" ->
               Bind(th, "top_category", MaxItem(l["fused_scores"], th.key_order), "fusion_confidence")
          [] th.pc = "fusion_confidence" ->
               Bind(th, "fusion_confidence",
                    calculate_fusion_confidence(l["valid_results"], l["top_category"]),
                    "fusion_quality")
          [] th.pc = "fusion_quality" ->
               Bind(th, "fusion_quality",
                    assess_fusion_quality(l["valid_results"], l["fusion_confidence"]), "fusion_return")
          [] th.pc = "fusion_return" ->
               Finished(th,
                   [dominant_emotion |-> l["top_category"],
                    confidence |-> l["fusion_confidence"],
                    all_scores |-> l["fused_scores"],
                    modalities_used |-> DOMAIN l["valid_results"],
                    fusion_method |-> "weighted_probability",
                    fusion_quality |-> l["fusion_quality"],
                    modality_details |->
                       [m \in DOMAIN l["valid_results"] |->
                           [weight |-> l["valid_results"][m].weight,
                            confidence |-> MaxValue(l["valid_results"][m].cluster_scores)]]])

DetectPcs ==
    {"journaling_scores", "face_scores", "voice_scores", "final_scores", "dominant_emotion",
     "confidence", "indicators", "actions", "return"}

FusionPcs ==
    {"valid_results", "fused_scores", "top_category", "fusion_confidence", "fusion_quality",
     "fusion_return"}

\* the calls the threads make
ThreadRequests ==
    {[initial |-> ScenarioA, journaling |-> JournalA, face |-> None,
      voice |-> [cluster_scores |-> ("sad" :> T(6)) @@ ("calm" :> T(6))]],
     [initial |-> [energy_level |-> "high", feeling_like |-> "screaming"], journaling |-> <<"drain">>,
      face |-> [cluster_scores |-> None], voice |-> None]}

ThreadFusions ==
    {[text |-> [cluster_scores |-> ("sad" :> T(6)) @@ ("anxious" :> T(6))],
      face |-> [cluster_scores |-> ("sad" :> T(4)), ensemble_info |-> "ensemble"]],
     [text |-> None, voice |-> None]}
---------------------------------------------------------------------------
(* Concurrent requests on the module-level PatternTracker.  The server     *)
(* runs each request in a thread of its own and add_check_in takes no      *)
(* lock, so the statements of two calls interleave on self.patterns and    *)
(* on the history file.  pc names the statement a thread executes next.    *)

MaxTracked == 2      \* check-ins the concurrent requests add

\* the requests whose check-ins the threads add
TrackerRequests ==
    {[initial |-> ScenarioB, journaling |-> JournalB, face |-> None, voice |-> None],
     [initial |-> [need_most |-> "rest"], journaling |-> <<"drain">>, face |-> None, voice |-> None]}

\* the history file between open(..., 'w') and the first flush
TruncatedFile == [truncated |-> TRUE]

\* a history file that holds parts of two serializations
TornFile == [torn |-> TRUE]

TrackerPcs ==
    {"append_check_in", "counts_test", "counts_init", "counts_add",
     "daily_test", "daily_init", "daily_append",
     "weekly_test", "weekly_init", "weekly_append",
     "extract_triggers", "generate_insights", "save_open", "save_dump", "save_close"}

\* the calls of add_check_in a thread has made
CallsOf(th) == IF "calls" \in DOMAIN th THEN th.calls ELSE 0

\* one statement of add_check_in executed by thread th on the shared
\* patterns p and the history file: the thread, the patterns and the file
\* after it
step_add_check_in(th, p, file) ==
    LET emotion == th.emotion_data.emotion
        now == th.now
        to(next) == [th EXCEPT !.pc = next]
        state(t2, p2, f2) == [thread |-> t2, patterns |-> p2, history_file |-> f2]
    IN  CASE th.pc = "append_check_in" ->
               state(to("counts_test"),
                     [p EXCEPT !.check_ins =
                        Append(@, [date |-> now.date,
                                   day_of_week |-> now.day_of_week,
                                   hour |-> now.hour,
                                   emotion |-> emotion,
                                   emotion_name |-> th.emotion_data.emotion_name,
                                   confidence |-> th.emotion_data.confidence,
                                   indicators |-> th.emotion_data.indicators,
                                   user_responses |-> [initial |-> th.initial,
                                                       journaling |-> th.journaling]])],
                     file)
          [] th.pc = "counts_test" ->
               state(to(IF emotion \notin ODKeys(p.emotion_counts)
                        THEN "counts_init" ELSE "counts_add"), p, file)
          [] th.pc = "counts_init" ->
               state(to("counts_add"), [p EXCEPT !.emotion_counts = ODSet(@, emotion, 0)], file)
          [] th.pc = "counts_add" ->
               state(to("daily_test"),
                     [p EXCEPT !.emotion_counts = ODSet(@, emotion, ODGet(@, emotion, 0) + 1)], file)
          [] th.pc = "daily_test" ->
               state(to(IF now.date \notin ODKeys(p.daily_patterns)
                        THEN "daily_init" ELSE "daily_append"), p, file)
          [] th.pc = "daily_init" ->
               state(to("daily_append"), [p EXCEPT !.daily_patterns = ODSet(@, now.date, <<>>)], file)
          [] th.pc = "daily_append" ->
               state(to("weekly_test"),
                     [p EXCEPT !.daily_patterns =
                        ODSet(@, now.date, Append(ODGet(@, now.date, <<>>), emotion))], file)
          [] th.pc = "weekly_test" ->
               state(to(IF now.week \notin ODKeys(p.weekly_patterns)
                        THEN "weekly_init" ELSE "weekly_append"), p, file)
          [] th.pc = "weekly_init" ->
               state(to("weekly_append"), [p EXCEPT !.weekly_patterns = ODSet(@, now.week, <<>>)], file)
          [] th.pc = "weekly_append" ->
               state(to("extract_triggers"),
                     [p EXCEPT !.weekly_patterns =
                        ODSet(@, now.week, Append(ODGet(@, now.week, <<>>), emotion))], file)
          [] th.pc = "extract_triggers" ->
               state(to("generate_insights"),
                     [p EXCEPT !.triggers = extract_triggers(@, th.initial, emotion)], file)
          [] th.pc = "generate_insights" ->
               state(to("save_open"), [p EXCEPT !.insights = generate_insights(p)], file)
          [] th.pc = "save_open" ->
               state(to("save_dump"), p, TruncatedFile)
          [] th.pc = "save_dump" ->
               state([th EXCEPT !.pc = "save_close", !.buffer = p], p, file)
          [] th.pc = "save_close" ->
               state([th EXCEPT !.pc = "done", !.buffer = None], p, th.buffer)
---------------------------------------------------------------------------
(* The state machine: a caller invokes one operation and takes its result. *)

Init ==
    /\ question_weights = QuestionWeights
    /\ op = "idle"
    /\ request = None
    /\ result = None
    /\ modality_results = None
    /\ fusion = None
    /\ patterns = EmptyPatterns
    /\ history_file = None
    /\ http_response = None
    /\ memo = None
    /\ threads = [t \in Threads |-> IdleThread]

\* a caller invokes detect_emotion and receives its return value
DetectEmotion ==
    /\ op = "idle"
    /\ \E r \in Requests :
         /\ request' = r
         /\ result' = detect_emotion(question_weights, r.initial, r.journaling, r.face, r.voice)
    /\ op' = "detect"
    /\ UNCHANGED <<question_weights, modality_results, fusion, patterns, history_file, http_response, memo, threads>>

\* a caller invokes weighted_fusion and receives its return value
WeightedFusion ==
    /\ op = "idle"
    /\ \E r \in FusionInputs :
         \E keyOrder \in Orders(AllCategories(r)) :
            /\ modality_results' = r
            /\ fusion' = weighted_fusion(r, keyOrder)
    /\ op' = "fuse"
    /\ UNCHANGED <<question_weights, request, result, patterns, history_file, http_response, memo, threads>>

\* the caller is done with the returned value
Return ==
    /\ op # "idle"
    /\ op' = "idle"
    /\ request' = None
    /\ result' = None
    /\ modality_results' = None
    /\ fusion' = None
    /\ http_response' = None
    /\ UNCHANGED <<question_weights, patterns, history_file, memo, threads>>

\* a client posts to /api/analyze at a moment no earlier than the last
\* check-in and receives the response
AnalyzeEmotion ==
    /\ op = "idle"
    /\ Len(patterns.check_ins) < MaxCheckIns
    /\ \E data \in ApiRequests :
         \E t \in DOMAIN Times :
            /\ \A i \in DOMAIN patterns.check_ins :
                  \A u \in DOMAIN Times :
                     Times[u].date = patterns.check_ins[i].date => u <= t
            /\ \E out \in {analyze_emotion(question_weights, patterns, data, Times[t])} :
                   /\ request' = data
                   /\ result' = out.result
                   /\ http_response' = out.response
                   /\ patterns' = out.patterns
                   /\ history_file' = IF out.patterns = patterns THEN history_file
                                      ELSE out.patterns
    /\ op' = "analyze"
    /\ UNCHANGED <<question_weights, modality_results, fusion, memo, threads>>

Next == DetectEmotion \/ WeightedFusion \/ Return

Spec == Init /\ [][Next]_vars

\* the web application: requests to /api/analyze only
NextApi == AnalyzeEmotion \/ Return

SpecApi == Init /\ [][NextApi]_vars

\* the inputs of the calls a caller repeats
RepeatRequests ==
    {[initial |-> b.initial, journaling |-> b.journaling, face |-> f, voice |-> v] :
        b \in BasePool, f \in ModalityInputs, v \in ModalityPool}

\* a caller invokes detect_emotion for the first time and keeps the result
FirstDetect ==
    /\ op = "idle"
    /\ memo = None
    /\ threads = [t \in Threads |-> IdleThread]
    /\ \E r \in RepeatRequests :
         LET out == detect_emotion(question_weights, r.initial, r.journaling, r.face, r.voice)
         IN  /\ request' = r
             /\ result' = out
             /\ memo' = [op |-> "detect", input |-> r, output |-> out, calls |-> 1]
    /\ op' = "detect"
    /\ UNCHANGED <<question_weights, modality_results, fusion, patterns, history_file, http_response, threads>>

\* a caller invokes weighted_fusion for the first time and keeps the
\* result; key_order is the order in which the serving process iterates
\* the set of categories
FirstFusion ==
    /\ op = "idle"
    /\ memo = None
    /\ threads = [t \in Threads |-> IdleThread]
    /\ \E r \in FusionInputs :
         \E keyOrder \in Orders(AllCategories(r)) :
            LET out == weighted_fusion(r, keyOrder)
            IN  /\ modality_results' = r
                /\ fusion' = out
                /\ memo' = [op |-> "fuse", input |-> r, output |-> out, calls |-> 1,
                            key_order |-> keyOrder, same_process |-> TRUE]
    /\ op' = "fuse"
    /\ UNCHANGED <<question_weights, request, result, patterns, history_file, http_response, threads>>

\* the caller repeats the detect_emotion call with the identical input
RepeatDetect ==
    /\ op = "idle"
    /\ memo # None
    /\ memo.op = "detect"
    /\ memo.calls = 1
    /\ request' = memo.input
    /\ result' = detect_emotion(question_weights, memo.input.initial, memo.input.journaling,
                                memo.input.face, memo.input.voice)
    /\ memo' = [memo EXCEPT !.calls = 2]
    /\ op' = "detect"
    /\ UNCHANGED <<question_weights, modality_results, fusion, patterns, history_file, http_response, threads>>

\* the caller repeats the weighted_fusion call with the identical input.
\* The same process iterates the same set in the same order; another
\* process of the program (after a restart, or another worker) hashes
\* strings under its own seed and may iterate the set in any order.
RepeatFusion ==
    /\ op = "idle"
    /\ memo # None
    /\ memo.op = "fuse"
    /\ memo.calls = 1
    /\ \E same_process \in BOOLEAN :
         \E keyOrder \in Orders(AllCategories(memo.input)) :
            /\ same_process => keyOrder = memo.key_order
            /\ modality_results' = memo.input
            /\ fusion' = weighted_fusion(memo.input, keyOrder)
            /\ memo' = [memo EXCEPT !.calls = 2, !.same_process = same_process]
    /\ op' = "fuse"
    /\ UNCHANGED <<question_weights, request, result, patterns, history_file, http_response, threads>>

NextRepeat == FirstDetect \/ FirstFusion \/ RepeatDetect \/ RepeatFusion \/ Return

SpecRepeat == Init /\ [][NextRepeat]_vars

\* a thread calls detect_emotion
ThreadCallDetect ==
    /\ \E t \in Threads :
         /\ threads[t].pc = "idle"
         /\ \E r \in ThreadRequests :
              threads' = [threads EXCEPT ![t] =
                            [pc |-> "initial_scores", kind |-> "detect", given |-> r, args |-> r,
                             locals |-> EmptyDict, result |-> None]]
    /\ UNCHANGED <<question_weights, op, request, result, modality_results, fusion,
                   patterns, history_file, http_response, memo>>

\* a thread calls weighted_fusion
ThreadCallFusion ==
    /\ \E t \in Threads :
         /\ threads[t].pc = "idle"
         /\ \E r \in ThreadFusions :
              \E keyOrder \in Orders(AllCategories(r)) :
                 threads' = [threads EXCEPT ![t] =
                               [pc |-> "valid_results", kind |-> "fusion", given |-> r, args |-> r,
                                key_order |-> keyOrder, locals |-> EmptyDict, result |-> None]]
    /\ UNCHANGED <<question_weights, op, request, result, modality_results, fusion,
                   patterns, history_file, http_response, memo>>

\* a thread executes its next statement
ThreadStep ==
    /\ \E t \in Threads :
         LET th == threads[t]
             out == IF th.pc = "initial_scores" THEN step_initial_scores(question_weights, th)
                    ELSE IF th.pc \in DetectPcs THEN Outcome(step_detect(th), question_weights)
                    ELSE Outcome(step_fusion(th), question_weights)
         IN  /\ th.pc \notin {"idle", "done"}
             /\ threads' = [threads EXCEPT ![t] = out.thread]
             /\ question_weights' = out.question_weights
    /\ UNCHANGED <<op, request, result, modality_results, fusion,
                   patterns, history_file, http_response, memo>>

\* the caller of a finished call takes the result
ThreadReturn ==
    /\ \E t \in Threads :
         /\ threads[t].pc = "done"
         /\ threads' = [threads EXCEPT ![t] = IdleThread]
    /\ UNCHANGED <<question_weights, op, request, result, modality_results, fusion,
                   patterns, history_file, http_response, memo>>

NextThreads == ThreadCallDetect \/ ThreadCallFusion \/ ThreadStep \/ ThreadReturn

SpecThreads == Init /\ [][NextThreads]_vars

\* a request thread reaches the handler's call of add_check_in with the
\* result of its detection
TrackerCall ==
    /\ \E t \in Threads :
         /\ threads[t].pc = "idle"
         /\ Len(patterns.check_ins)
               + Cardinality({u \in Threads : threads[u].pc = "append_check_in"}) < MaxTracked
         /\ \E r \in TrackerRequests :
              threads' = [threads EXCEPT ![t] =
                            [pc |-> "append_check_in", kind |-> "check_in",
                             emotion_data |-> detect_emotion(question_weights, r.initial,
                                                             r.journaling, r.face, r.voice),
                             initial |-> r.initial, journaling |-> r.journaling,
                             now |-> Times[1], buffer |-> None,
                             calls |-> CallsOf(threads[t]) + 1]]
    /\ UNCHANGED <<question_weights, op, request, result, modality_results, fusion,
                   patterns, history_file, http_response, memo>>

\* a thread executes its next statement of add_check_in; a flush into a
\* file that another handle has written since this one truncated it leaves
\* this thread's text or a mix of the two
TrackerStep ==
    /\ \E t \in Threads :
         /\ threads[t].pc \in TrackerPcs
         /\ \E out \in {step_add_check_in(threads[t], patterns, history_file)} :
              /\ threads' = [threads EXCEPT ![t] = out.thread]
              /\ patterns' = out.patterns
              /\ history_file' \in
                    {out.history_file}
                    \cup (IF threads[t].pc = "save_close" /\ history_file # TruncatedFile
                          THEN {TornFile} ELSE {})
    /\ UNCHANGED <<question_weights, op, request, result, modality_results, fusion,
                   http_response, memo>>

\* add_check_in returns to the handler
TrackerReturn ==
    /\ \E t \in Threads :
         /\ threads[t].pc = "done"
         /\ threads' = [threads EXCEPT ![t] = [pc |-> "idle", calls |-> threads[t].calls]]
    /\ UNCHANGED <<question_weights, op, request, result, modality_results, fusion,
                   patterns, history_file, http_response, memo>>

NextTracker == TrackerCall \/ TrackerStep \/ TrackerReturn

SpecTracker == Init /\ [][NextTracker]_vars

\* a weight table with an entry that names a category outside the registry
CorruptWeights ==
    [QuestionWeights EXCEPT !.energy_level.high = @ @@ ("stressed" :> T(5))]

\* the detector as shipped, or with its question_weights attribute replaced
\* by a table that refers to an unknown category
InitCfg ==
    /\ question_weights \in {QuestionWeights, CorruptWeights}
    /\ op = "idle"
    /\ request = None
    /\ result = None
    /\ modality_results = None
    /\ fusion = None
    /\ patterns = EmptyPatterns
    /\ history_file = None
    /\ http_response = None
    /\ memo = None
    /\ threads = [t \in Threads |-> IdleThread]

SpecCfg == InitCfg /\ [][Next]_vars

---------------------------------------------------------------------------
(* Properties.                                                             *)

Detected == op = "detect"
Fused == op = "fuse"

\* detect_emotion returned the record built in its try block
Normal == Detected /\ result # Raised /\ result # get_fallback_result

AllZero(scores) == \A k \in DOMAIN scores : scores[k] = Zero

\* the keys holding the largest value of a score map
MaxKeys(scores) == {k \in DOMAIN scores : scores[k] = MaxValue(scores)}

\* the member of a set of registry categories that the registry lists first
RegistryFirst(S) ==
    emotions[CHOOSE i \in DOMAIN emotions :
                /\ emotions[i] \in S
                /\ \A j \in DOMAIN emotions : emotions[j] \in S => i <= j]

\* C1: whenever the fused score map is all-zero, detect_emotion returns the
\* emotion 'calm', and weighted_fusion with no contributing source returns a
\* result whose dominant emotion is 'calm'.
C1_AllZeroIsCalm ==
    /\ (Normal /\ AllZero(result.all_scores)) => result.emotion = "calm"
    /\ (Fused /\ DOMAIN ValidResults(modality_results) = {}) =>
          (fusion # None /\ fusion.dominant_emotion = "calm")

\* every source of the request abstains: no structured answers, no
\* journaling responses, no face data, no voice data
AllAbstain(r) ==
    /\ DOMAIN r.initial = {}
    /\ Len(r.journaling) = 0
    /\ ~Truthy(r.face)
    /\ ~Truthy(r.voice)

\* C2: when every source abstains, detect_emotion does not raise and returns
\* confidence exactly 0 and an empty indicators list.
C2_AbstainZeroConfidence ==
    (Detected /\ AllAbstain(request)) =>
        /\ result # Raised
        /\ result.confidence = Zero
        /\ result.indicators = <<>>

C2_Witness ==
    /\ Detected
    /\ AllAbstain(request)
    /\ request.face = EmptyDict
    /\ AllZero(result.all_scores)
    /\ DOMAIN result.all_scores = EmotionKeys

\* C3: if two or more categories hold exactly equal maximal fused scores,
\* the dominant category is the one the registry lists first, whatever the
\* order in which sources and keys are iterated; for detect_emotion and for
\* weighted_fusion.
C3_TieBreakRegistryOrder ==
    /\ (Normal /\ Cardinality(MaxKeys(result.all_scores)) >= 2) =>
          result.emotion = RegistryFirst(MaxKeys(result.all_scores))
    /\ (/\ Fused
        /\ fusion # None
        /\ Cardinality(MaxKeys(fusion.all_scores)) >= 2
        /\ MaxKeys(fusion.all_scores) \subseteq EmotionKeys) =>
          fusion.dominant_emotion = RegistryFirst(MaxKeys(fusion.all_scores))

\* the detect_emotion half of C3 (it holds)
C3_DetectTieBreak ==
    (Normal /\ Cardinality(MaxKeys(result.all_scores)) >= 2) =>
        result.emotion = RegistryFirst(MaxKeys(result.all_scores))

InUnitInterval(x) == RLeq(Zero, x) /\ RLeq(x, One)

\* C4: the confidence returned by detect_emotion (its fallback record
\* included) and by every non-None weighted_fusion result lies in [0, 1].
C4_ConfidenceBounds ==
    /\ Detected => (result # Raised /\ InUnitInterval(result.confidence))
    /\ (Fused /\ fusion # None) => InUnitInterval(fusion.confidence)

\* the cap decides: dominant score 0.7, a clear margin and the strong-signal
\* bonus add up to more than 1
C4_Witness ==
    /\ Normal
    /\ result.all_scores[result.emotion] = R(7, 10)
    /\ RLess(R(3, 10), RSub(R(7, 10), SecondBest(result.all_scores)))
    /\ result.confidence = One

\* C5: in every record detect_emotion returns (normal or fallback) and in
\* every non-None result of weighted_fusion, the dominant emotion is a key of
\* the returned all_scores map and holds the map's largest value.
C5_DominantIsMaximum ==
    /\ Detected =>
          /\ result # Raised
          /\ result.emotion \in DOMAIN result.all_scores
          /\ result.all_scores[result.emotion] = MaxValue(result.all_scores)
    /\ (Fused /\ fusion # None) =>
          /\ fusion.dominant_emotion \in DOMAIN fusion.all_scores
          /\ fusion.all_scores[fusion.dominant_emotion] = MaxValue(fusion.all_scores)

\* a record whose maximum is neither the first nor the last registry key and
\* stands above other positive scores
C5_Witness ==
    /\ Normal
    /\ result.emotion = "overwhelmed"
    /\ \E e \in EmotionKeys :
          /\ RLess(Zero, result.all_scores[e])
          /\ RLess(result.all_scores[e], result.all_scores["overwhelmed"])

\* c is the only key holding the largest value of a score map
UniqueMax(scores, c) == MaxKeys(scores) = {c}

\* C6: for detect_emotion called with structured answers and journaling
\* text only, a category that is the unique maximum of both the
\* structured-answer score map and the journaling score map is the dominant
\* emotion, with confidence above 0.7; scenario A gives 'anxious', scenario B
\* gives 'sad'.
C6_AgreeingSourcesWin ==
    /\ (Detected /\ request.face = None /\ request.voice = None) =>
          \A c \in EmotionKeys :
             (/\ UniqueMax(score_initial_responses(question_weights, request.initial), c)
              /\ UniqueMax(score_journaling_responses(request.journaling), c)) =>
                 /\ result.emotion = c
                 /\ RLess(R(7, 10), result.confidence)
    /\ (/\ Detected
        /\ request = [initial |-> ScenarioA, journaling |-> JournalA, face |-> None, voice |-> None]) =>
          (result.emotion = "anxious" /\ RLess(R(7, 10), result.confidence))
    /\ (/\ Detected
        /\ request = [initial |-> ScenarioB, journaling |-> JournalB, face |-> None, voice |-> None]) =>
          (result.emotion = "sad" /\ RLess(R(7, 10), result.confidence))

\* both maps agree on 'sad' while the runner-up is close behind
C6_Witness ==
    /\ Normal
    /\ request.face = None /\ request.voice = None
    /\ UniqueMax(result.analysis_details.initial_scores, "sad")
    /\ UniqueMax(result.analysis_details.journaling_scores, "sad")
    /\ result.emotion = "sad"
    /\ RLess(R(2, 10), SecondBest(result.all_scores))

\* a modality's data carries no scores: it is absent, an empty dict, or a
\* dict whose score map is missing or empty (and that names no category)
NoScores(data) ==
    \/ data = None
    \/ /\ "actionable_category" \notin DOMAIN data
       /\ \/ "cluster_scores" \notin DOMAIN data
          \/ data["cluster_scores"] = EmptyDict

\* C7: a modality whose score map is empty or missing contributes nothing to
\* any fused category score: the fused result equals the result obtained
\* without that modality, and the abstaining modality is never turned into
\* evidence for 'calm'; in detect_emotion and in weighted_fusion.
C7_AbstainingModalityIgnored ==
    /\ (Detected /\ NoScores(request.face)) =>
          result.all_scores =
             detect_emotion(question_weights, request.initial, request.journaling,
                            None, request.voice).all_scores
    /\ (Detected /\ NoScores(request.voice)) =>
          result.all_scores =
             detect_emotion(question_weights, request.initial, request.journaling,
                            request.face, None).all_scores
    /\ Fused =>
          \A m \in DOMAIN modality_results :
             NoScores(modality_results[m]) =>
                LET without == [modality_results EXCEPT ![m] = None]
                IN  IF fusion = None
                    THEN DOMAIN ValidResults(without) = {}
                    ELSE fusion.all_scores =
                            FusedScores(ValidResults(without), AllCategories(without))

\* the detect_emotion half of C7 (it holds)
C7_DetectIgnoresAbstainer ==
    /\ (Detected /\ NoScores(request.face)) =>
          result.all_scores =
             detect_emotion(question_weights, request.initial, request.journaling,
                            None, request.voice).all_scores
    /\ (Detected /\ NoScores(request.voice)) =>
          result.all_scores =
             detect_emotion(question_weights, request.initial, request.journaling,
                            request.face, None).all_scores

\* what each scorer accumulates before it normalizes has a positive entry
InitialHasSignal(qw, responses) ==
    \E q \in DOMAIN responses : q \in DOMAIN qw /\ responses[q] \in DOMAIN qw[q]

JournalingHasSignal(responses) ==
    \E i \in DOMAIN responses :
        /\ ~IsBlank(responses[i])
        /\ \E e \in EmotionKeys : KeywordHits[responses[i]][e] > 0

ModalityHasSignal(data, mapping) ==
    /\ Truthy(data)
    /\ "cluster_scores" \in DOMAIN data
    /\ \E t \in DOMAIN data["cluster_scores"] :
          t \in DOMAIN mapping /\ RLess(Zero, data["cluster_scores"][t])

\* a scorer's output: largest value exactly 1 when something was
\* accumulated, all-zero otherwise, and unchanged by normalizing it again
ScorerOutput(scores, has_signal) ==
    /\ DOMAIN scores = EmotionKeys
    /\ has_signal => MaxValue(scores) = One
    /\ ~has_signal => scores = ZeroScores
    /\ Normalize(scores) = scores

\* C8: every source scorer (structured answers, journaling keywords, face,
\* voice) returns a map whose largest value is exactly 1.0 whenever an
\* accumulated value is positive, returns the all-zero map when nothing was
\* accumulated, and normalizing a returned map again leaves it unchanged.
C8_ScorersNormalized ==
    Normal =>
        /\ ScorerOutput(result.analysis_details.initial_scores,
                        InitialHasSignal(question_weights, request.initial))
        /\ ScorerOutput(result.analysis_details.journaling_scores,
                        JournalingHasSignal(request.journaling))
        /\ Truthy(request.face) =>
              ScorerOutput(result.analysis_details.face_scores,
                           ModalityHasSignal(request.face, face_mapping))
        /\ Truthy(request.voice) =>
              ScorerOutput(result.analysis_details.voice_scores,
                           ModalityHasSignal(request.voice, voice_mapping))

\* every scorer accumulated something, with more than one positive bucket
C8_Witness ==
    /\ Normal
    /\ result.analysis_details.initial_scores["overwhelmed"] = R(8, 9)
    /\ result.analysis_details.journaling_scores["sad"] = R(1, 3)
    /\ ModalityHasSignal(request.face, face_mapping)
    /\ Truthy(request.voice)
    /\ result.analysis_details.voice_scores["happy"] = One
    /\ result.analysis_details.voice_scores["anxious"] = R(6, 10)

ResultFields ==
    {"emotion", "emotion_name", "confidence", "indicators", "immediate_actions",
     "short_term_actions", "all_scores", "analysis_details"}

\* C9: detect_emotion never lets an exception out and always returns a
\* complete result record (emotion, confidence, indicators, actions,
\* all_scores) for every request of the documented input domain.
C9_DetectIsTotal ==
    Detected =>
        /\ result # Raised
        /\ DOMAIN result = ResultFields
        /\ result.emotion \in EmotionKeys
        /\ Len(result.immediate_actions) > 0
        /\ Len(result.short_term_actions) > 0

\* a face dict whose score entry is no map makes the scorer raise, and the
\* caller receives the fallback record
C9_Witness ==
    /\ Detected
    /\ Raises_score_face(request.face)
    /\ DOMAIN request.initial # {}
    /\ result = get_fallback_result

\* C10: a reference to a category id outside the closed set of 8 categories
\* (a weight-table entry naming an unknown category) is surfaced to the
\* caller as an error; it is never turned into a normal-looking result.
C10_UnknownCategorySurfaced ==
    (Detected /\ Raises_score_initial_responses(question_weights, request.initial)) =>
        result = Raised


---------------------------------------------------------------------------
(* Claims about the analysis entry point and about fusion.                 *)

Analyzed == op = "analyze"

\* the structured answers of a dict that the question schema knows
SchemaAnswers(initial_responses) ==
    Dict([q \in {k \in DOMAIN initial_responses :
                    validate_initial_response(k, initial_responses[k])}
            |-> initial_responses[q]])

\* C11: structured answers sent to /api/analyze with a question id or an
\* answer value outside the question schema are tolerated: the request is
\* still analysed (HTTP 200, detection run), the unknown pair contributing
\* no score.
C11_UnknownAnswersTolerated ==
    (/\ Analyzed
     /\ request # None
     /\ InvalidItems(request.initial) # <<>>) =>
        /\ http_response.status = 200
        /\ result # None
        /\ result.all_scores =
              detect_emotion(question_weights, SchemaAnswers(request.initial),
                             request.journaling, request.face, request.voice).all_scores

\* a caller has just repeated an earlier call with the identical input
Repeated == op \in {"detect", "fuse"} /\ memo # None /\ memo.calls = 2

\* what the last call returned
Output == IF op = "detect" THEN result ELSE fusion

\* C12: calling the fusion twice with identical inputs yields identical
\* results (dominant emotion, confidence, fused scores, indicators, quality
\* tag), for detect_emotion and for weighted_fusion, ties for the maximum
\* included.
C12_RepeatIdentical ==
    Repeated => Output = memo.output

\* the part of C12 that holds: a repeated detect_emotion call, and a
\* repeated weighted_fusion call served by the same process
C12_SameProcessIdentical ==
    (Repeated /\ (memo.op = "fuse" => memo.same_process)) => Output = memo.output

\* a score map with the score of category c raised to x
Raise(scores, c, x) == Dict((c :> x) @@ scores)

\* the scores a source's score may be raised to
RaisedScores == {T(5), T(10)}

\* modality m of a fusion input carries a score map of its own
HasScoreMap(results, m) ==
    /\ results[m] # None
    /\ "cluster_scores" \in DOMAIN results[m]
    /\ results[m]["cluster_scores"] # None

\* the fused scores of quality-adjusted mode
FusedOf(results) == FusedScores(ValidResults(results), AllCategories(results))

\* simple weighted mode: raising one source's score for the category that
\* then wins does not lower that category's fused score
C13_CombineMonotone ==
    Normal =>
        \A s \in {"initial_scores", "journaling_scores", "face_scores", "voice_scores"} :
          \A c \in EmotionKeys :
            \A x \in RaisedScores :
               LET d == result.analysis_details
                   d2 == [d EXCEPT ![s] = Raise(@, c, x)]
                   fused2 == combine_scores(d2.initial_scores, d2.journaling_scores,
                                            d2.face_scores, d2.voice_scores)
               IN  (RLeq(Get(d[s], c, Zero), x) /\ c \in MaxKeys(fused2)) =>
                      RLeq(result.all_scores[c], fused2[c])

\* quality-adjusted mode, a category absent from a source's map counting
\* as score 0 for that source
C13_FusionMonotone ==
    (Fused /\ fusion # None) =>
        \A m \in {k \in DOMAIN modality_results : HasScoreMap(modality_results, k)} :
          \A c \in FusionTags :
            \A x \in TagScores :
               LET old == modality_results[m]["cluster_scores"]
                   r2 == [modality_results EXCEPT
                             ![m] = [@ EXCEPT !["cluster_scores"] = Raise(old, c, x)]]
                   fused2 == FusedOf(r2)
               IN  (RLeq(Get(old, c, Zero), x) /\ c \in MaxKeys(fused2)) =>
                      RLeq(Get(fusion.all_scores, c, Zero), fused2[c])

\* C13: holding all other inputs fixed, increasing one source's score for
\* the eventual winning category never decreases the fused score of that
\* category, in simple weighted mode and in quality-adjusted mode.
C13_Monotone == C13_CombineMonotone /\ C13_FusionMonotone

\* what the call of a thread returns when it runs alone
Alone(th) ==
    IF th.kind = "detect"
    THEN detect_emotion(QuestionWeights, th.given.initial, th.given.journaling,
                        th.given.face, th.given.voice)
    ELSE weighted_fusion(th.given, th.key_order)

\* C14: a detect_emotion or weighted_fusion call modifies neither the
\* weight tables nor the input maps it was given; under any interleaving
\* of concurrent calls each call returns the result it returns alone.
C14_CallsDoNotInterfere ==
    /\ question_weights = QuestionWeights
    /\ \A t \in Threads :
          /\ threads[t].pc # "idle" => threads[t].args = threads[t].given
          /\ threads[t].pc = "done" => threads[t].result = Alone(threads[t])

\* a call finishes while another call with the same answers is half way
C14_Witness ==
    \E t, u \in Threads :
       /\ t # u
       /\ threads[t].pc = "done"
       /\ threads[t].kind = "detect"
       /\ threads[t].result.emotion = "anxious"
       /\ threads[u].pc = "confidence"
       /\ threads[u].given = threads[t].given

\* the score a source of the last request gives category c; 0 when the
\* source is absent
SourceScore(source, c) ==
    CASE source = "answers" -> score_initial_responses(question_weights, request.initial)[c]
      [] source = "journaling" -> score_journaling_responses(request.journaling)[c]
      [] source = "face" -> IF Truthy(request.face) THEN score_face(request.face)[c] ELSE Zero
      [] source = "voice" -> IF Truthy(request.voice) THEN score_voice(request.voice)[c] ELSE Zero

\* the sum of the weights of the sources that are present
PresentWeight ==
    RAdd(RAdd(R(7, 10), IF Truthy(request.face) THEN R(2, 10) ELSE Zero),
         IF Truthy(request.voice) THEN R(1, 10) ELSE Zero)

\* C15: in simple weighted mode the fused score of every category c is
\* 0.3*answers(c) + 0.4*journaling(c) + 0.2*face(c) + 0.1*voice(c), an
\* absent source counting as 0 and the weights not renormalised; so every
\* fused score lies in [0, W], W the sum of the weights of the present
\* sources.
C15_WeightedSum ==
    Normal =>
        \A c \in EmotionKeys :
           /\ result.all_scores[c] =
                 RAdd(RAdd(RAdd(RMul(R(3, 10), SourceScore("answers", c)),
                                RMul(R(4, 10), SourceScore("journaling", c))),
                           RMul(R(2, 10), SourceScore("face", c))),
                      RMul(R(1, 10), SourceScore("voice", c)))
           /\ RLeq(Zero, result.all_scores[c])
           /\ RLeq(result.all_scores[c], PresentWeight)

\* a request with face data and no voice data whose winner scores above 0.7
C15_Witness ==
    /\ Normal
    /\ Truthy(request.face)
    /\ ~Truthy(request.voice)
    /\ RLess(R(7, 10), result.all_scores[result.emotion])
    /\ RLeq(result.all_scores[result.emotion], R(9, 10))

\* the categories of a score map with a nonzero score
NonZero(scores) == {c \in DOMAIN scores : scores[c] # Zero}

\* the tiered boost of a margin m
TieredBoost(m) ==
    IF RLess(R(3, 10), m) THEN R(35, 100)
    ELSE IF RLess(R(15, 100), m) THEN RMul(R(5, 10), m)
    ELSE RMul(R(2, 10), m)

\* the confidence of a dominant score s with a margin boost b: s + b,
\* times 0.7 if s < 0.3, plus 0.15 if s > 0.6, clamped to 1
Estimate(s, b) ==
    LET boosted == RAdd(s, b)
        adjusted == IF RLess(s, R(3, 10)) THEN RMul(boosted, R(7, 10))
                    ELSE IF RLess(R(6, 10), s) THEN RAdd(boosted, R(15, 100))
                    ELSE boosted
    IN  RMin(adjusted, One)

\* C16: when only one category has a nonzero fused score the margin used
\* for boosting is 0, so no margin boost is added to the base confidence.
C16_SingleCategoryNoBoost ==
    (Normal /\ Cardinality(NonZero(result.all_scores)) = 1) =>
        result.confidence = Estimate(result.all_scores[result.emotion], Zero)

\* C17: for a dominant score s and margin m = s - second-highest score the
\* confidence is clamp-to-1 of s plus the tiered boost of m, then times
\* 0.7 if s < 0.3 or plus 0.15 if s > 0.6, neither when 0.3 <= s <= 0.6.
C17_ConfidenceFormula ==
    Normal =>
        LET s == result.all_scores[result.emotion]
            m == RSub(s, SecondBest(result.all_scores))
        IN  result.confidence = Estimate(s, TieredBoost(m))

\* a result of the middle tier and the middle strength range: s + 0.5*m
C17_Witness ==
    /\ Normal
    /\ LET s == result.all_scores[result.emotion]
           m == RSub(s, SecondBest(result.all_scores))
       IN  /\ RLeq(R(3, 10), s)
           /\ RLeq(s, R(6, 10))
           /\ RLess(R(15, 100), m)
           /\ RLeq(m, R(3, 10))
           /\ result.confidence = RAdd(s, RMul(R(5, 10), m))

\* simple weighted mode: a category key absent from a scorer's map, or a
\* tag absent from the face or voice score map of the request, gives the
\* fused scores that the key at value 0 gives
C18_CombineAbsentIsZero ==
    Normal =>
        /\ \A s \in {"initial_scores", "journaling_scores", "face_scores", "voice_scores"} :
             \A c \in EmotionKeys \ DOMAIN result.analysis_details[s] :
                LET d2 == [result.analysis_details EXCEPT ![s] = Raise(@, c, Zero)]
                IN  combine_scores(d2.initial_scores, d2.journaling_scores,
                                   d2.face_scores, d2.voice_scores) = result.all_scores
        /\ \A s \in {"face", "voice"} :
             (Truthy(request[s]) /\ HasScoreMap(request, s)) =>
                \A tag \in TagPool \ DOMAIN request[s]["cluster_scores"] :
                   LET r2 == [request EXCEPT
                                 ![s] = [@ EXCEPT !["cluster_scores"] = Raise(@, tag, Zero)]]
                   IN  detect_emotion(question_weights, r2.initial, r2.journaling,
                                      r2.face, r2.voice).all_scores = result.all_scores

\* quality-adjusted mode
C18_FusionAbsentIsZero ==
    (Fused /\ fusion # None) =>
        \A m \in {k \in DOMAIN modality_results : HasScoreMap(modality_results, k)} :
           \A c \in FusionTags \ DOMAIN modality_results[m]["cluster_scores"] :
              LET r2 == [modality_results EXCEPT
                            ![m] = [@ EXCEPT !["cluster_scores"] = Raise(@, c, Zero)]]
                  fused2 == FusedOf(r2)
              IN  \A k \in DOMAIN fused2 \cup DOMAIN fusion.all_scores :
                     Get(fused2, k, Zero) = Get(fusion.all_scores, k, Zero)

\* C18: for fusion, a source score map in which a category key is absent
\* is equivalent to the same map with that key present at value 0: both
\* give the same fused score for every category, in simple weighted mode
\* and in quality-adjusted mode.
C18_AbsentIsZero == C18_CombineAbsentIsZero /\ C18_FusionAbsentIsZero

\* the contributing sources of the last weighted_fusion call whose score
\* map holds category c
Holders(c) ==
    {m \in DOMAIN ValidResults(modality_results) :
        c \in DOMAIN ValidResults(modality_results)[m].cluster_scores}

\* C19: in quality-adjusted mode the fused score of each category is the
\* sum of score*weight over the sources whose map contains the category,
\* divided by the sum of the weights of exactly those sources; a category
\* in only one source's map gets that source's score, and the divisor is
\* never zero.
C19_PerCategoryAverage ==
    (Fused /\ fusion # None) =>
        \A c \in DOMAIN fusion.all_scores :
           LET v == ValidResults(modality_results)
               w == [m \in Holders(c) |-> fusion.modality_details[m].weight]
               divisor == SumOver(w, Holders(c))
           IN  /\ RLess(Zero, divisor)
               /\ fusion.all_scores[c] =
                     RDiv(SumOver([m \in Holders(c) |-> RMul(v[m].cluster_scores[c], w[m])],
                                  Holders(c)),
                          divisor)
               /\ \A m \in Holders(c) :
                     Holders(c) = {m} => fusion.all_scores[c] = v[m].cluster_scores[c]

\* one category held by a single source next to a category that two
\* sources of different weight score differently
C19_Witness ==
    /\ Fused
    /\ fusion # None
    /\ \E c, k \in DOMAIN fusion.all_scores :
          /\ Cardinality(Holders(c)) = 1
          /\ Cardinality(Holders(k)) = 2
          /\ Cardinality(DOMAIN ValidResults(modality_results)) = 3
          /\ \E m, n \in Holders(k) :
                /\ fusion.modality_details[m].weight # fusion.modality_details[n].weight
                /\ ValidResults(modality_results)[m].cluster_scores[k] #
                      ValidResults(modality_results)[n].cluster_scores[k]

\* the base weight of a modality
BaseWeight(modality) ==
    CASE modality = "text" -> One
      [] modality = "voice" -> R(8, 10)
      [] modality = "face" -> R(7, 10)
      [] OTHER -> R(5, 10)

\* C20: the effective weight of a source in quality-adjusted mode is its
\* base weight (text 1.0, voice 0.8, face 0.7, any other modality 0.5)
\* plus a boost of at most 0.2, capped at 1.0: for every modality and data
\* record, base <= weight <= min(base + 0.2, 1.0).
C20_WeightBounds ==
    Fused =>
        \A m \in {k \in DOMAIN modality_results : modality_results[k] # None} :
           LET w == calculate_modality_weight(m, modality_results[m])
           IN  /\ RLeq(BaseWeight(m), w)
               /\ RLeq(w, RMin(RAdd(BaseWeight(m), R(2, 10)), One))
               /\ m \in DOMAIN ValidResults(modality_results) =>
                     fusion.modality_details[m].weight = w

\* a voice result that earns the stress boost and the confidence boost
\* and is capped at 1.0
C20_Witness ==
    /\ Fused
    /\ fusion # None
    /\ "voice" \in DOMAIN fusion.modality_details
    /\ fusion.modality_details["voice"].weight = One
    /\ RLess(R(7, 10), Get(modality_results["voice"], "confidence", Zero))
    /\ "stress_analysis" \in DOMAIN modality_results["voice"]

\* the answers whose (question id, answer value) pair the weight table holds
KnownPairs(qw, responses) ==
    LET known == {q \in DOMAIN responses :
                     q \in DOMAIN qw /\ responses[q] \in DOMAIN qw[q]}
    IN  Dict([q \in known |-> responses[q]])

\* C21: in the structured scorer a (question id, answer value) pair that is
\* not in the weight table contributes nothing: the returned score map
\* equals the map obtained from the same answers with every unknown pair
\* removed, and no error is raised.
C21_UnknownPairsSkipped ==
    Detected =>
        /\ ~Raises_score_initial_responses(question_weights, request.initial)
        /\ score_initial_responses(question_weights, request.initial)
              = score_initial_responses(question_weights,
                                        KnownPairs(question_weights, request.initial))

\* a call with one answer the table holds and one it does not
C21_Witness ==
    /\ Detected
    /\ KnownPairs(question_weights, request.initial) # EmptyDict
    /\ KnownPairs(question_weights, request.initial) # request.initial
    /\ \E q \in DOMAIN request.initial :
          q \in DOMAIN question_weights /\ request.initial[q] \notin DOMAIN question_weights[q]
    /\ ~AllZero(score_initial_responses(question_weights, request.initial))

\* the distinct keyword phrases of an emotion
Phrases(e) == {emotion_keywords[e][k] : k \in DOMAIN emotion_keywords[e]}

\* per text and emotion, the distinct keyword phrases of the emotion that the
\* lower-cased text contains
PhraseHits ==
    [t \in TextIds |->
        [e \in EmotionKeys |->
            Cardinality({kw \in Phrases(e) : Contains(lower(Corpus[t]), kw)})]]

\* the number of (response, distinct keyword phrase of e) pairs where the
\* non-blank response contains the phrase
PhrasePairs(responses, e) ==
    LET solid == {i \in DOMAIN responses : ~IsBlank(responses[i])}
    IN  SumOver([i \in solid |-> R(PhraseHits[responses[i]][e], 1)], solid)

\* C22: in the keyword text scorer each configured keyword phrase of a
\* category adds exactly 1 to that category's counter for each non-blank
\* response that contains it, and nothing for blank responses: before
\* normalization a category's counter equals the number of (response,
\* distinct keyword phrase of that category) pairs where the response
\* contains the phrase.
C22_CountsDistinctPairs ==
    Detected =>
        \A e \in EmotionKeys :
            keyword_counts(request.journaling)[e]
               = PhrasePairs(request.journaling, e)

\* the modality tags whose canonical category is e
TagsOf(e) ==
    CASE e = "anxious" -> {"stressed", "anxious"}
      [] e = "happy" -> {"positive", "energized"}
      [] e \in {"frustrated", "sad", "overwhelmed", "calm"} -> {e}
      [] OTHER -> {}

\* the sum of the scores of the tags whose canonical category is e
Bucket(tag_scores, e) ==
    SumOver(tag_scores, DOMAIN tag_scores \cap TagsOf(e))

\* scores is the bucket map of tag_scores scaled to a largest value of 1.0
\* (the all-zero map when no bucket is positive)
ScaledBuckets(scores, tag_scores) ==
    LET top == CHOOSE e \in EmotionKeys :
                   \A f \in EmotionKeys : RLeq(Bucket(tag_scores, f), Bucket(tag_scores, e))
    IN  /\ DOMAIN scores = EmotionKeys
        /\ IF RLess(Zero, Bucket(tag_scores, top))
           THEN /\ scores[top] = One
                /\ \A e \in EmotionKeys :
                      RMul(scores[e], Bucket(tag_scores, top)) = Bucket(tag_scores, e)
           ELSE \A e \in EmotionKeys : scores[e] = Zero

HasTagMap(data) ==
    /\ Truthy(data)
    /\ "cluster_scores" \in DOMAIN data
    /\ data["cluster_scores"] # None

\* C23: in the face and voice scorers the score of every modality tag that
\* has a mapping is added into the bucket of its canonical category (the
\* scores of several tags of one category are summed, stressed + anxious
\* into anxious, positive + energized into happy), every tag without a
\* mapping is dropped without error, and the result is then normalized to
\* maximum 1.0.
C23_TagsSummedIntoBuckets ==
    (Detected /\ (HasTagMap(request.face) \/ HasTagMap(request.voice))
              /\ ~Raises_score_face(request.face) /\ ~Raises_score_voice(request.voice)) =>
        /\ Normal
        /\ HasTagMap(request.face) =>
              ScaledBuckets(result.analysis_details.face_scores, request.face["cluster_scores"])
        /\ HasTagMap(request.voice) =>
              ScaledBuckets(result.analysis_details.voice_scores, request.voice["cluster_scores"])

\* a face map with a tag that has no mapping, and a voice map with two
\* tags of one category
C23_Witness ==
    /\ Normal
    /\ HasTagMap(request.face)
    /\ \E t \in DOMAIN request.face["cluster_scores"] :
          /\ \A e \in EmotionKeys : t \notin TagsOf(e)
          /\ RLess(Zero, request.face["cluster_scores"][t])
    /\ HasTagMap(request.voice)
    /\ {"positive", "energized"} \subseteq DOMAIN request.voice["cluster_scores"]
    /\ result.analysis_details.voice_scores["happy"] = One
    /\ result.analysis_details.voice_scores["anxious"] = R(6, 10)

\* the first journaling response of more than 10 characters shows the
\* words of the emotion
WritingShows(journaling_responses, emotion) ==
    /\ emotion \in DOMAIN indicator_words
    /\ \E i \in DOMAIN journaling_responses :
          /\ Len(strip(Corpus[journaling_responses[i]])) > 10
          /\ \A j \in 1..(i - 1) : Len(strip(Corpus[journaling_responses[j]])) <= 10
          /\ \E word \in indicator_words[emotion] :
                Contains(lower(Corpus[journaling_responses[i]]), word)

\* the evidence checks of a request in their priority order, each with its
\* indicator and whether it matches the category
EvidenceChecks(req, emotion) ==
    <<[text |-> "Your thoughts are racing",
       ok |-> Get(req.initial, "thoughts", "") = "racing" /\ emotion \in {"anxious", "overwhelmed"}],
      [text |-> "Your energy feels low",
       ok |-> Get(req.initial, "energy_level", "") = "low" /\ emotion \in {"sad", "tired"}],
      [text |-> "You feel physically tense",
       ok |-> Get(req.initial, "physical", "") = "tense" /\ emotion \in {"anxious", "frustrated"}],
      [text |-> "You feel like crying",
       ok |-> Get(req.initial, "feeling_like", "") = "crying" /\ emotion = "sad"],
      [text |-> "You feel like screaming",
       ok |-> Get(req.initial, "feeling_like", "") = "screaming" /\ emotion = "frustrated"],
      [text |-> "You feel like laughing",
       ok |-> Get(req.initial, "feeling_like", "") = "laughing" /\ emotion = "happy"],
      [text |-> IF emotion \in DOMAIN indicator_text THEN indicator_text[emotion] ELSE "",
       ok |-> WritingShows(req.journaling, emotion)],
      [text |-> "Your facial expression shows this emotion", ok |-> Selected(req.face, emotion)],
      [text |-> "Your voice tone indicates this emotion", ok |-> Selected(req.voice, emotion)]>>

\* the indicators of the checks that match, in priority order
Matching(req, emotion) ==
    LET hits == SelectSeq(EvidenceChecks(req, emotion), LAMBDA c : c.ok)
    IN  [i \in DOMAIN hits |-> hits[i].text]

\* C24: the indicators list returned by detect_emotion has at most 3
\* entries and is exactly the first three elements of the sequence built in
\* fixed priority order: the structured-answer indicators (in their fixed
\* check order), then at most one journaling-derived indicator, then the
\* face indicator, then the voice indicator; every entry is one whose
\* evidence check matches the winning category.
C24_IndicatorsFirstThree ==
    Normal =>
        LET all == Matching(request, result.emotion)
        IN  /\ Len(result.indicators) <= 3
            /\ Len(result.indicators) = (IF Len(all) < 3 THEN Len(all) ELSE 3)
            /\ \A i \in DOMAIN result.indicators : result.indicators[i] = all[i]

\* four checks match and the last of them, the voice indicator, is cut
C24_Witness ==
    /\ Normal
    /\ Len(Matching(request, result.emotion)) > 3
    /\ Len(result.indicators) = 3
    /\ Selected(request.voice, result.emotion)
    /\ \A i \in DOMAIN result.indicators :
          result.indicators[i] # "Your voice tone indicates this emotion"

\* weighted_fusion returned a record
FusedRecord == Fused /\ fusion # None

\* the contributing sources of the last fusion whose weight is high
HighWeightSources ==
    {m \in fusion.modalities_used : RLess(R(8, 10), fusion.modality_details[m].weight)}

QualityTags == <<"very_low", "low", "medium", "high">>

QualityRank(tag) == CHOOSE i \in DOMAIN QualityTags : QualityTags[i] = tag

\* the modality results without the source m
Without(results, m) == Dict([k \in DOMAIN results \ {m} |-> results[k]])

\* the valid results without the source m
ValidWithout(results, m) ==
    LET valid == ValidResults(results)
    IN  Dict([k \in DOMAIN valid \ {m} |-> valid[k]])

ConfidenceLevels == {Zero, R(5, 10), R(6, 10), R(7, 10), R(8, 10), R(9, 10), One}

\* lowering the confidence of the last fusion never improves its tag
LoweringNeverImproves ==
    \A c \in ConfidenceLevels :
        RLeq(c, fusion.confidence) =>
            QualityRank(assess_fusion_quality(ValidResults(modality_results), c))
                <= QualityRank(fusion.fusion_quality)

\* C25: the fusion-quality tag returned by weighted_fusion is 'high'
\* exactly when at least two contributing sources have a high weight
\* (> 0.8) and the fusion confidence is high (> 0.8); with fewer high-weight
\* sources or lower confidence the tag is one of 'medium', 'low',
\* 'very_low', and removing a source or lowering the confidence never
\* improves the tag.
C25_HighExactlyWhen ==
    FusedRecord =>
        /\ fusion.fusion_quality = "high"
              <=> (Cardinality(HighWeightSources) >= 2 /\ RLess(R(8, 10), fusion.confidence))
        /\ fusion.fusion_quality \in {"high", "medium", "low", "very_low"}
        /\ \A m \in fusion.modalities_used :
              Cardinality(fusion.modalities_used) > 1 =>
                 \A keyOrder \in Orders(AllCategories(Without(modality_results, m))) :
                    QualityRank(weighted_fusion(Without(modality_results, m), keyOrder).fusion_quality)
                       <= QualityRank(fusion.fusion_quality)
        /\ LoweringNeverImproves

\* C25, amended: the tag is 'high' exactly when the confidence is above 0.8
\* and two sources have a high weight or three sources contribute, or the
\* confidence is above 0.6 and three sources contribute, two of them with a
\* high weight; otherwise it is one of 'medium', 'low', 'very_low';
\* lowering the confidence never improves the tag, and removing a source
\* never improves it while the confidence is held fixed.
C25_QualityTag ==
    FusedRecord =>
        LET high == Cardinality(HighWeightSources)
            count == Cardinality(fusion.modalities_used)
        IN  /\ fusion.fusion_quality = "high"
                  <=> \/ RLess(R(8, 10), fusion.confidence) /\ (high >= 2 \/ count >= 3)
                      \/ RLess(R(6, 10), fusion.confidence) /\ high >= 2 /\ count >= 3
            /\ fusion.fusion_quality \in {"high", "medium", "low", "very_low"}
            /\ \A m \in fusion.modalities_used :
                  QualityRank(assess_fusion_quality(ValidWithout(modality_results, m),
                                                    fusion.confidence))
                     <= QualityRank(fusion.fusion_quality)
            /\ LoweringNeverImproves

\* three agreeing sources of which one alone has a high weight: 'high'
C25_Witness ==
    /\ FusedRecord
    /\ fusion.fusion_quality = "high"
    /\ Cardinality(fusion.modalities_used) = 3
    /\ Cardinality(HighWeightSources) = 1
    /\ RLess(R(8, 10), fusion.confidence)

\* the sum of the counts of an ordered dict of counters
RECURSIVE CountTotal(_)
CountTotal(od) == IF od = <<>> THEN 0 ELSE Head(od).v + CountTotal(Tail(od))

\* the number of entries in all the lists of an ordered dict of lists
RECURSIVE EntryTotal(_)
EntryTotal(od) == IF od = <<>> THEN 0 ELSE Len(Head(od).v) + EntryTotal(Tail(od))

\* the four totals of a pattern store
Totals(p) ==
    <<Len(p.check_ins), CountTotal(p.emotion_counts),
      EntryTotal(p.daily_patterns), EntryTotal(p.weekly_patterns)>>

\* the step is a request whose handler called add_check_in
CheckInAdded == op = "idle" /\ op' = "analyze" /\ http_response'.status = 200

\* C26: starting from an empty pattern store, after any sequence of
\* add_check_in calls with well-formed emotion data the sum of
\* emotion_counts over all emotions equals the number of stored check_ins,
\* which also equals the total number of entries in all daily_patterns
\* lists and in all weekly_patterns lists; each call adds exactly one to
\* each of these.
C26_TotalsAgree ==
    [][/\ \A i \in 1..4 : Totals(patterns')[i] = Len(patterns'.check_ins)
       /\ CheckInAdded =>
             \A i \in 1..4 : Totals(patterns')[i] = Totals(patterns)[i] + 1]_vars

\* three check-ins on two days, of two emotions
C26_Witness ==
    /\ Len(patterns.check_ins) = 3
    /\ Len(patterns.daily_patterns) = 2
    /\ Len(patterns.emotion_counts) = 2
    /\ \E i \in DOMAIN patterns.daily_patterns : Len(patterns.daily_patterns[i].v) = 2
    /\ Totals(patterns) = <<3, 3, 3, 3>>

\* no call of add_check_in is under way
Quiescent == \A t \in Threads : threads[t].pc = "idle"

\* the calls of add_check_in made so far
TrackerCalls == CallsOf(threads[1]) + CallsOf(threads[2])

C27_CheckInsKept ==
    (Quiescent /\ TrackerCalls > 0) => Len(patterns.check_ins) = TrackerCalls

C27_CountsKept ==
    (Quiescent /\ TrackerCalls > 0) => CountTotal(patterns.emotion_counts) = TrackerCalls

C27_FileComplete ==
    (Quiescent /\ TrackerCalls > 0) =>
        /\ history_file \notin {None, TruncatedFile, TornFile}
        /\ history_file.check_ins = patterns.check_ins

\* the step is a request to /api/analyze
Handled == op = "idle" /\ op' = "analyze"

\* the body of the request passes the validation of its structured answers
PassesValidation(data) == data # None /\ InvalidItems(data.initial) = <<>>

\* C28: in the /api/analyze handler validation of the structured answers
\* precedes detection and pattern tracking: a request rejected with HTTP
\* 400 leaves the pattern tracker unchanged and runs no detection, and
\* every request that passes validation calls add_check_in exactly once,
\* after detect_emotion has returned, also when detect_emotion returned its
\* 'neutral' fallback record.
C28_ValidateDetectTrack ==
    [][Handled =>
          /\ http_response'.status = 400 =>
                (patterns' = patterns /\ result' = None)
          /\ PassesValidation(request') =>
                /\ result' # None
                /\ Len(patterns'.check_ins) = Len(patterns.check_ins) + 1
                /\ patterns'.check_ins[Len(patterns'.check_ins)].emotion = result'.emotion]_vars

\* parts of C28: the rejected requests, and the accepted requests whose
\* journaling responses are a JSON object
C28_RejectedUntouched ==
    [][(Handled /\ http_response'.status = 400) =>
          (patterns' = patterns /\ result' = None)]_vars

C28_ObjectsTracked ==
    [][(Handled /\ PassesValidation(request') /\ JournalingIsObject(request')) =>
          /\ result' # None
          /\ Len(patterns'.check_ins) = Len(patterns.check_ins) + 1
          /\ patterns'.check_ins[Len(patterns'.check_ins)].emotion = result'.emotion]_vars

\* the detection part of a result record
Detection(r) == <<r.emotion, r.confidence, r.indicators>>

\* the request handled last carried a face image whose analysis failed
FaceAnalysisFailed ==
    /\ op = "analyze"
    /\ "face" \in DOMAIN request
    /\ IsTuple(request.face)
    /\ result # None

\* C29: when the face analyzer fails and analyze_complete_face returns its
\* failure value, the detection result (emotion, confidence, indicators)
\* of the request equals the result of the same request sent without a
\* face image.
C29_FaceFailureAsNoFace ==
    FaceAnalysisFailed =>
        Detection(result) =
            Detection(detect_emotion(question_weights, request.initial,
                                     request.journaling, None, request.voice))

\* what the handler answers instead: the fallback record
C29_FaceFailureFallsBack ==
    FaceAnalysisFailed => Detection(result) = Detection(get_fallback_result)

\* the request handled last carried a voice result of the voice analyzer
VoiceAnalysed ==
    /\ Detected
    /\ request.voice # None
    /\ "emotion_scores" \in DOMAIN request.voice

\* the tags of the voice result that have a mapping and a positive score
PositiveTags ==
    {t \in DOMAIN request.voice.emotion_scores \cap DOMAIN voice_mapping :
        RLess(Zero, request.voice.emotion_scores[t])}

\* the same request without voice data
WithoutVoice ==
    detect_emotion(question_weights, request.initial, request.journaling, request.face, None)

\* C30: when a voice result produced by analyze_complete_voice is passed
\* to detect_emotion its per-emotion scores enter the fused score map with
\* weight 0.1: a positive score for a mapped category raises that
\* category's fused score compared with the same request without voice
\* data.
C30_VoiceScoresEnter ==
    VoiceAnalysed =>
        \A t \in PositiveTags :
            RLess(WithoutVoice.all_scores[voice_mapping[t]],
                  result.all_scores[voice_mapping[t]])

\* what the detector does with the analyzer's record: nothing is added
C30_VoiceResultIgnored ==
    VoiceAnalysed =>
        /\ PositiveTags # {}
        /\ result.all_scores = WithoutVoice.all_scores
        /\ \A e \in EmotionKeys : result.analysis_details.voice_scores[e] = Zero
====
